---------------------------- MODULE Spec2Model ----------------------------
(***************************************************************************)
(* A model of the skill import engine of fgp-cli                           *)
(* (src/src/commands/skill_import.rs): format parsers producing the        *)
(* confidence-tagged intermediate record (UIR), registry enrichment,       *)
(* quality assessment, fingerprinting and sync analysis, and the           *)
(* import_skill pipeline that ties them to the files of an output          *)
(* directory.                                                              *)
(*                                                                         *)
(* Representation.  A string of the program is a TLA+ string.  A text      *)
(* whose length or content matters (a description, an instructions body)   *)
(* is a record [s, len, fence]: its identity, its length in bytes and      *)
(* whether it contains a code fence.  Option<T> is None (Nil) or a T.      *)
(* A hash is the sequence of values written to the hasher: DefaultHasher   *)
(* (SipHash with fixed keys) is taken to be collision free on the inputs   *)
(* of the model, so two hashes are equal exactly when the same sequence    *)
(* of values was fed to the hasher.  Hashing a str writes its bytes and a  *)
(* terminator, so a run of strings is recovered from the bytes written;    *)
(* what the hasher does not see (which string opened a new dependency) is  *)
(* not in the hash.                                                        *)
(***************************************************************************)
EXTENDS Integers, Sequences, FiniteSets, TLC

VARIABLES
    source,       \* the source document on disk (its parsed surface features)
    registry,     \* the daemon manifests found under the home directory
    sync_file,    \* <output>/.sync.json: "absent", "garbage" or a SyncMetadata
    agent_md,     \* <output>/instructions/<format>.md: copy of the last imported source
    skill_yaml,   \* <output>/skill.yaml: "absent", "garbage" or the lines written
    skill,        \* the UIR of the last import_skill run (after enrichment)
    enrichment,   \* the EnrichmentData of the last run, or None
    quality,      \* the QualityAssessment of the last run
    sync,         \* the SyncAnalysis of the last run, or None
    last_op,      \* what the last step was
    clock,        \* the wall clock read by chrono::Utc::now()
    last_imported \* history: the fingerprint stored by the most recent successful
                  \* import_skill call that was not a dry run

vars == <<source, registry, sync_file, agent_md, skill_yaml, skill, enrichment,
          quality, sync, last_op, clock, last_imported>>

\* Option<T>::None: None where T is a string, Nil where T is a record
None == "<none>"

Nil == [nil |-> TRUE]

(***************************************************************************)
(* Bounds of the model.                                                    *)
(***************************************************************************)
MaxClock == 2

(***************************************************************************)
(* Confidence, ImportedField.                                              *)
(***************************************************************************)
Confidences == {"High", "Medium", "Low", "Unknown"}

Field(value, confidence, src, notes) ==
    [value |-> value, confidence |-> confidence, source |-> src, notes |-> notes]

high(value, src) == Field(value, "High", src, None)

medium(value, src) == Field(value, "Medium", src, None)

low(value, src) == Field(value, "Low", src, None)

unknown(value) == Field(value, "Unknown", "Default", "Could not determine value")

with_note(f, note) == [f EXCEPT !.notes = note]

(***************************************************************************)
(* Texts.                                                                  *)
(***************************************************************************)
Txt(s) == [s |-> s, len |-> Len(s), fence |-> FALSE]

\* format!("{} skill", name.value)
SkillSuffix(name) == Txt(name \o " skill")


(***************************************************************************)
(* Source documents.  A document is given by the surface features the      *)
(* parsers look for:                                                       *)
(*   path            [dir, file]: the name of the directory holding the    *)
(*                   file, and the file name                               *)
(*   fm_name, fm_description, fm_version                                   *)
(*                   front-matter scalars, None (Nil) when absent          *)
(*   tools           the front-matter tools list; an entry "d.m" is the    *)
(*                   pair [daemon |-> d, method |-> m] of split_once('.'), *)
(*                   an entry without a dot has daemon None                *)
(*   fm_triggers     the front-matter triggers list                        *)
(*   yaml            (only when the front matter is not valid YAML)        *)
(*                   Malformed; the fm_ fields and tools are then what     *)
(*                   the author meant to write                             *)
(*   body            the text after the front matter, with                 *)
(*     text            the body itself                                     *)
(*     para            its first paragraph ("" when there is none)         *)
(*     calls           the matches of  fgp call (\w+)\.(\w+)               *)
(*     clients         the matches of  fgp-(\w+)-client (\w+)              *)
(*     clis            the matches of  fgp-(\w+) (\w+)                     *)
(*     tables          the matches of  `(\w+)\.(\w+)`  when the body has   *)
(*                     a  | Method |  table header, else none              *)
(*     trigger_items   the list items of its trigger section, trimmed      *)
(*     commands        the matches of  /command  (with the slash)          *)
(***************************************************************************)
Tool(d, m) == [daemon |-> d, method |-> m]

\* what serde_json and serde_yaml fail on: text that is not valid JSON (YAML)
Malformed == [kind |-> "malformed"]

\* serde_yaml::from_str(&frontmatter).unwrap_or(..): the front matter that the
\* parser goes on with, every field absent when the YAML does not parse
frontmatter_or_default(doc) ==
    IF "yaml" \in DOMAIN doc /\ doc.yaml = Malformed
    THEN [doc EXCEPT !.fm_name = None, !.fm_description = Nil, !.fm_version = None,
                     !.tools = <<>>, !.fm_triggers = <<>>]
    ELSE doc

\* extract_first_paragraph
extract_first_paragraph(body) == body.para

(***************************************************************************)
(* is_valid_daemon_name.  to_lowercase is given on the mixed-case names    *)
(* the documents of the model use.                                         *)
(***************************************************************************)
invalid_names ==
    {"json", "yaml", "yml", "md", "txt", "toml", "xml", "html", "css", "js", "ts",
     "py", "rs", "go", "java", "sh", "bash", "zsh", "env", "log", "tmp", "bak",
     "credentials", "config", "settings", "example", "test", "spec", "mock",
     "src", "bin", "lib", "pkg", "dist", "build", "target", "node_modules"}

to_lowercase(s) ==
    CASE s = "JSON" -> "json"
      [] s = "Src" -> "src"
      [] s = "Gmail" -> "gmail"
      [] s = "Cursor" -> "cursor"
      [] OTHER -> s

\* str::len: the number of bytes of the UTF-8 encoding
utf8_len(s) ==
    CASE s = "é" -> 2
      [] OTHER -> Len(s)

is_valid_daemon_name(name) ==
    /\ to_lowercase(name) \notin invalid_names
    /\ utf8_len(name) >= 2

(***************************************************************************)
(* The HashMap<String, Vec<ImportedField<String>>> of the extractors, kept *)
(* as a sequence of entries [name, methods] in insertion order.  The order *)
(* in which a HashMap is iterated is not the insertion order: it depends   *)
(* on the per-map random hasher keys, so into_iter() may yield the entries *)
(* in any order (IterationOrders).                                         *)
(***************************************************************************)
HasKey(map, k) == \E i \in 1..Len(map) : map[i].name = k

\* daemons.entry(k).or_default()
EntryOrDefault(map, k) ==
    IF HasKey(map, k) THEN map ELSE Append(map, [name |-> k, methods |-> <<>>])

HasMethod(methods, m) == \E i \in 1..Len(methods) : methods[i].value = m

\* daemons.entry(k).or_default().push(f), or with only_new the push guarded by
\* !methods.iter().any(|m| m.value == f.value)
EntryPush(map, k, f, only_new) ==
    LET m1 == EntryOrDefault(map, k)
    IN  [i \in 1..Len(m1) |->
            IF m1[i].name = k /\ ~(only_new /\ HasMethod(m1[i].methods, f.value))
            THEN [m1[i] EXCEPT !.methods = Append(@, f)]
            ELSE m1[i]]

\* the loop over the tools list (lines 2110-2122)
RECURSIVE PushTools(_, _)
PushTools(map, tools) ==
    IF tools = <<>> THEN map
    ELSE LET t == Head(tools)
             m1 == IF t.daemon # None /\ is_valid_daemon_name(t.daemon)
                   THEN EntryPush(map, t.daemon, high(t.method, "Frontmatter"), FALSE)
                   ELSE map
         IN  PushTools(m1, Tail(tools))

\* a loop over the matches of one body pattern (lines 2126-2142, 2146-2161,
\* 2165-2185, 2189-2199); tmpl is the field pushed, skip the method names the
\* loop passes over before it looks at the daemon name
RECURSIVE PushHits(_, _, _, _)
PushHits(map, hits, tmpl, skip) ==
    IF hits = <<>> THEN map
    ELSE LET h == Head(hits)
             m1 == IF h.method \notin skip /\ is_valid_daemon_name(h.daemon)
                   THEN EntryPush(map, h.daemon, [tmpl EXCEPT !.value = h.method], TRUE)
                   ELSE map
         IN  PushHits(m1, Tail(hits), tmpl, skip)

IterationOrders(n) == {p \in [1..n -> 1..n] : \A i, j \in 1..n : p[i] = p[j] => i = j}

IntoIter(map, order) == [i \in 1..Len(map) |-> map[order[i]]]

\* the map built by extract_daemons_from_tools before it is iterated
daemons_map(tools, body) ==
    LET m1 == PushTools(<<>>, tools)
        m2 == PushHits(m1, body.calls, medium("", "MethodExtraction"), {})
        m3 == PushHits(m2, body.clients,
                       with_note(medium("", "MethodExtraction"),
                                 "Extracted from fgp-*-client pattern"), {})
        m4 == PushHits(m3, body.clis,
                       with_note(low("", "MethodExtraction"),
                                 "Extracted from fgp-* CLI pattern"),
                       {"client", "daemon"})
    IN  PushHits(m4, body.tables, medium("", "Content"), {})

\* a closure that never rates a name above Medium
to_imported_daemon_medium(e) ==
    [name |-> Field(e.name, "Medium", "MethodExtraction", None),
     version |-> with_note(low(">=1.0.0", "Default"), "Default version constraint"),
     optional |-> low(FALSE, "Default"),
     methods |-> e.methods]

\* the closure of lines 2204-2226
to_imported_daemon(e) ==
    [name |-> Field(e.name,
                    IF \E i \in 1..Len(e.methods) : e.methods[i].confidence = "High"
                    THEN "High" ELSE "Medium",
                    "MethodExtraction", None),
     version |-> with_note(low(">=1.0.0", "Default"), "Default version constraint"),
     optional |-> low(FALSE, "Default"),
     methods |-> e.methods]

extract_daemons_from_tools(tools, body, order) ==
    LET it == IntoIter(daemons_map(tools, body), order)
    IN  [i \in 1..Len(it) |-> to_imported_daemon(it[i])]

(***************************************************************************)
(* extract_triggers.                                                       *)
(***************************************************************************)
RECURSIVE PushNew(_, _, _)
PushNew(fields, values, tmpl) ==
    IF values = <<>> THEN fields
    ELSE PushNew(IF HasMethod(fields, Head(values)) THEN fields
                 ELSE Append(fields, [tmpl EXCEPT !.value = Head(values)]),
                 Tail(values), tmpl)

extract_triggers(frontmatter_triggers, body) ==
    LET kw0 == [i \in 1..Len(frontmatter_triggers) |->
                   high(frontmatter_triggers[i], "Frontmatter")]
        items == SelectSeq(body.trigger_items, LAMBDA x : x # "")
        cmds == SelectSeq(body.commands, LAMBDA c : Len(c) >= 3)
    IN  [keywords |-> PushNew(kw0, items, medium("", "Content")),
         patterns |-> <<>>,
         commands |-> PushNew(<<>>, cmds, medium("", "Content"))]

(***************************************************************************)
(* parse_claude_code.                                                      *)
(***************************************************************************)
parse_claude_code(doc, now, order) ==
    LET fm == frontmatter_or_default(doc)
        name == IF fm.fm_name # None THEN high(fm.fm_name, "Frontmatter")
                ELSE with_note(medium(IF doc.path.dir # None THEN doc.path.dir ELSE "unknown-skill",
                                      "Filename"),
                               "Inferred from directory name")
        first_para == extract_first_paragraph(doc.body)
        description ==
            IF fm.fm_description # Nil THEN high(fm.fm_description, "Frontmatter")
            ELSE IF first_para.len # 0
                 THEN with_note(medium(first_para, "Content"), "Extracted from first paragraph")
                 ELSE low(SkillSuffix(name.value), "Default")
        version == IF fm.fm_version # None THEN high(fm.fm_version, "Frontmatter")
                   ELSE with_note(low("1.0.0", "Default"), "Default version - please update")
    IN  [name |-> name,
         version |-> version,
         description |-> description,
         author |-> Nil,
         daemons |-> extract_daemons_from_tools(fm.tools, doc.body, order),
         instructions_content |-> high(doc.body.text, "Content"),
         triggers |-> extract_triggers(fm.fm_triggers, doc.body),
         source_format |-> "ClaudeCode",
         source_path |-> doc.path,
         import_timestamp |-> now]

(***************************************************************************)
(* The markdown parsers without a tools list: parse_cursor, parse_zed,     *)
(* parse_windsurf and parse_aider.  parse_cursor, parse_zed and            *)
(* parse_aider read the whole file; their documents have no front matter,  *)
(* so that the file is its body.  Further features of a body:              *)
(*     h1              its first "# " heading, None when it has none       *)
(*     overview        the first line of its overview/about/description    *)
(*                     section: Nil without such a section, Txt("") when   *)
(*                     the first line of the section is blank              *)
(*     usage_items     the list items of its commands/usage section        *)
(***************************************************************************)
\* a scan that finds no heading
extract_first_h1_none(content) == None

extract_first_h1(content) == content.h1

\* the directory names extract_name_from_path passes over
generic_dirs == {"skills", "claude-code", "cursorrules", "rules", "."}

\* file_stem() with the trims of lines 1915-1921, on the file names of the model
trimmed_stem(file) ==
    CASE file = ".cursorrules" -> "cursorrules"
      [] file = "my.cursorrules" -> "my"
      [] file = "project.rules" -> "project"
      [] file = "notes.windsurf.md" -> "notes"
      [] file = "CONVENTIONS.md" -> "CONVENTIONS"
      [] file = "gemini-extension.json" -> "gemini-extension"
      [] file = "test.codex.json" -> "test.codex"
      [] file = "test.mcp.json" -> "test.mcp"
      [] file = "SKILL.md" -> "SKILL"
      [] file = "skill.md" -> "skill"
      [] file = "README.md" -> "README"
      [] file = "package.json" -> "package"
      [] file = "my.CONVENTIONS.md" -> "my.CONVENTIONS"
      [] file = "cursorrules" -> "cursorrules"
      [] file = "rules" -> "rules"
      [] file = "SKILL.md.bak" -> "SKILL.md"
      [] OTHER -> "unknown-skill"

extract_name_from_path(path) ==
    IF path.dir # None /\ path.dir \notin generic_dirs THEN path.dir
    ELSE trimmed_stem(path.file)

\* the name of parse_cursor, parse_zed and (after the front matter) parse_windsurf
name_from_content(path, content) ==
    IF extract_first_h1(content) # None
    THEN with_note(medium(extract_first_h1(content), "Content"),
                   "Extracted from first H1 header")
    ELSE with_note(low(extract_name_from_path(path), "Filename"), "Inferred from path")

\* the description of the same parsers
description_from_content(name, content) ==
    IF extract_first_paragraph(content).len # 0
    THEN with_note(medium(extract_first_paragraph(content), "Content"),
                   "Extracted from first paragraph")
    ELSE low(SkillSuffix(name.value), "Default")

default_version == with_note(low("1.0.0", "Default"), "Default version - please update")

parse_cursor(doc, now, order) ==
    LET content == doc.body
        name == name_from_content(doc.path, content)
    IN  [name |-> name,
         version |-> default_version,
         description |-> description_from_content(name, content),
         author |-> Nil,
         daemons |-> extract_daemons_from_tools(<<>>, content, order),
         instructions_content |-> high(content.text, "Content"),
         triggers |-> extract_triggers(<<>>, content),
         source_format |-> "Cursor",
         source_path |-> doc.path,
         import_timestamp |-> now]

parse_zed(doc, now, order) ==
    [parse_cursor(doc, now, order) EXCEPT !.source_format = "Zed"]

parse_windsurf(doc, now, order) ==
    LET fm == frontmatter_or_default(doc)
        body == doc.body
        name == IF fm.fm_name # None THEN high(fm.fm_name, "Frontmatter")
                ELSE name_from_content(doc.path, body)
    IN  [name |-> name,
         version |-> default_version,
         description |-> IF fm.fm_description # Nil
                         THEN high(fm.fm_description, "Frontmatter")
                         ELSE description_from_content(name, body),
         author |-> Nil,
         daemons |-> extract_daemons_from_tools(<<>>, body, order),
         instructions_content |-> high(body.text, "Content"),
         triggers |-> extract_triggers(<<>>, body),
         source_format |-> "Windsurf",
         source_path |-> doc.path,
         import_timestamp |-> now]

\* lower.contains("convention") || lower.contains("rules") || lower.contains("guide"),
\* on the headings of the model
is_generic_h1(h1) == h1 \in {"Conventions", "Coding Rules", "Style Guide"}

\* item.starts_with('/') || item.starts_with("aider"), on the items of the model
starts_like_command(item) == item \in {"/add", "aider --watch"}

parse_aider(doc, now, order) ==
    LET content == doc.body
        h1 == extract_first_h1(content)
        name == IF h1 # None
                THEN IF is_generic_h1(h1)
                     THEN with_note(low(extract_name_from_path(doc.path), "Filename"),
                                    "H1 was generic, using path")
                     ELSE with_note(medium(h1, "Content"), "Extracted from first H1 header")
                ELSE with_note(low(extract_name_from_path(doc.path), "Filename"),
                               "Inferred from path")
        description ==
            IF content.overview # Nil
            THEN IF content.overview.len # 0
                 THEN with_note(medium(content.overview, "Content"),
                                "Extracted from Overview section")
                 ELSE low(SkillSuffix(name.value), "Default")
            ELSE description_from_content(name, content)
        triggers == extract_triggers(<<>>, content)
        usage == SelectSeq(content.usage_items, starts_like_command)
    IN  [name |-> name,
         version |-> default_version,
         description |-> description,
         author |-> Nil,
         daemons |-> extract_daemons_from_tools(<<>>, content, order),
         instructions_content |-> high(content.text, "Content"),
         triggers |-> [triggers EXCEPT !.keywords =
                          PushNew(@, usage,
                                  with_note(medium("", "Content"),
                                            "From Commands/Usage section"))],
         source_format |-> "Aider",
         source_path |-> doc.path,
         import_timestamp |-> now]

(***************************************************************************)
(* The JSON parsers: parse_gemini, parse_codex and parse_mcp.  A document  *)
(* of these formats is [path, json]; the fields of json are those of the   *)
(* deserialized struct, None (Nil for a text or a record) when absent.     *)
(*   instructions      a body, as above                                    *)
(*   instructions_file [file, read]: read is Missing when the file does    *)
(*                     not exist, Unreadable when it exists and cannot be  *)
(*                     read, and else the body read from it                *)
(*   capabilities      (Gemini) each a pair of split_once('.') as in a     *)
(*                     tools list, Nil for a capability without a name     *)
(*   tools             (Codex) as in a tools list; (MCP) each [name,        *)
(*                     description, parts, dot]: parts the pieces of       *)
(*                     split("__"), dot the pair of split_once('.')        *)
(* A path that names a file has a parent, so instructions_path is Some.    *)
(***************************************************************************)
Missing == [kind |-> "missing"]

Unreadable == [kind |-> "unreadable"]

\* a text that the parsers generate: it matches no pattern of the extractors
Generated(s) == [text |-> Txt(s), para |-> Txt(""), h1 |-> None] @@
                [calls |-> <<>>, clients |-> <<>>, clis |-> <<>>, tables |-> <<>>,
                 trigger_items |-> <<>>, commands |-> <<>>]

\* the instructions of parse_gemini (lines 2655-2683) and parse_codex
\* (lines 2781-2809): [field, body], the field without its text
instructions_of(json, name) ==
    IF json.instructions # Nil
    THEN [field |-> high("", "Frontmatter"), body |-> json.instructions]
    ELSE IF json.instructions_file # Nil
    THEN IF json.instructions_file.read = Missing
         THEN [field |-> with_note(low("", "Default"),
                                   "Referenced instructions file not found"),
               body |-> Generated("# " \o name.value \o "\n\nInstructions file not found: "
                                  \o json.instructions_file.file)]
         ELSE IF json.instructions_file.read = Unreadable
         THEN [field |-> high("", "Content"),
               body |-> Generated("# " \o name.value \o "\n\nInstructions file: "
                                  \o json.instructions_file.file)]
         ELSE [field |-> high("", "Content"), body |-> json.instructions_file.read]
    ELSE [field |-> low("", "Default"),
          body |-> Generated("# " \o name.value \o "\n\n[Instructions to be added]")]

\* the loop over the capabilities (lines 2686-2702)
RECURSIVE PushCapabilities(_, _)
PushCapabilities(map, capabilities) ==
    IF capabilities = <<>> THEN map
    ELSE LET cap == Head(capabilities)
             m1 == IF cap # Nil /\ cap.daemon # None /\ is_valid_daemon_name(cap.daemon)
                   THEN EntryPush(map, cap.daemon, high(cap.method, "Frontmatter"), FALSE)
                   ELSE map
         IN  PushCapabilities(m1, Tail(capabilities))

\* the closure of lines 2704-2716 and of lines 2909-2921
to_declared_daemon(e) ==
    [name |-> high(e.name, "Frontmatter"),
     version |-> low(">=1.0.0", "Default"),
     optional |-> low(FALSE, "Default"),
     methods |-> e.methods]

parse_gemini(doc, now, order) ==
    LET manifest == doc.json
        name == IF manifest.display_name # None
                THEN high(manifest.display_name, "Frontmatter")
                ELSE IF manifest.name # None THEN high(manifest.name, "Frontmatter")
                ELSE with_note(low(extract_name_from_path(doc.path), "Filename"),
                               "Inferred from path")
        ins == instructions_of(manifest, name)
        it == IntoIter(PushCapabilities(<<>>, manifest.capabilities), order)
    IN  [name |-> name,
         version |-> IF manifest.version # None THEN high(manifest.version, "Frontmatter")
                     ELSE default_version,
         description |-> IF manifest.description # Nil
                         THEN high(manifest.description, "Frontmatter")
                         ELSE low(SkillSuffix(name.value), "Default"),
         author |-> Nil,
         daemons |-> [i \in 1..Len(it) |-> to_declared_daemon(it[i])],
         instructions_content |-> [ins.field EXCEPT !.value = ins.body.text],
         triggers |-> [keywords |-> [i \in 1..Len(manifest.keywords) |->
                                        high(manifest.keywords[i], "Frontmatter")],
                       patterns |-> [i \in 1..Len(manifest.patterns) |->
                                        high(manifest.patterns[i], "Frontmatter")],
                       commands |-> <<>>],
         source_format |-> "Gemini",
         source_path |-> doc.path,
         import_timestamp |-> now]

parse_codex(doc, now, order) ==
    LET config == doc.json
        name == IF config.name # None THEN high(config.name, "Frontmatter")
                ELSE with_note(low(extract_name_from_path(doc.path), "Filename"),
                               "Inferred from path")
        ins == instructions_of(config, name)
    IN  [name |-> name,
         version |-> default_version,
         description |-> IF config.description # Nil
                         THEN high(config.description, "Frontmatter")
                         ELSE low(SkillSuffix(name.value), "Default"),
         author |-> Nil,
         daemons |-> extract_daemons_from_tools(config.tools, ins.body, order),
         instructions_content |-> [ins.field EXCEPT !.value = ins.body.text],
         triggers |-> [keywords |-> <<>>, patterns |-> <<>>, commands |-> <<>>],
         source_format |-> "Codex",
         source_path |-> doc.path,
         import_timestamp |-> now]

\* the loop over the tools (lines 2876-2907)
RECURSIVE PushMcpTools(_, _)
PushMcpTools(map, tools) ==
    IF tools = <<>> THEN map
    ELSE LET parts == Head(tools).parts
             dot == Head(tools).dot
             pair == IF Len(parts) >= 2
                     THEN IF parts[1] = "mcp" /\ Len(parts) >= 3
                          THEN Tool(parts[2], parts[3])
                          ELSE Tool(parts[1], parts[2])
                     ELSE dot
             m1 == IF pair.daemon # None /\ is_valid_daemon_name(pair.daemon)
                   THEN EntryPush(map, pair.daemon, high(pair.method, "Frontmatter"), FALSE)
                   ELSE map
         IN  PushMcpTools(m1, Tail(tools))

\* the lines pushed by lines 2925-2931
RECURSIVE tool_lines(_)
tool_lines(tools) ==
    IF tools = <<>> THEN ""
    ELSE "- **" \o Head(tools).name \o "**: "
         \o (IF Head(tools).description # None THEN Head(tools).description
             ELSE "No description")
         \o "\n" \o tool_lines(Tail(tools))

parse_mcp(doc, now, order) ==
    LET config == doc.json
        name == IF config.name # None THEN high(config.name, "Frontmatter")
                ELSE with_note(low(extract_name_from_path(doc.path), "Filename"),
                               "Inferred from path")
        it == IntoIter(PushMcpTools(<<>>, config.tools), order)
    IN  [name |-> name,
         version |-> default_version,
         description |-> IF config.description # Nil
                         THEN high(config.description, "Frontmatter")
                         ELSE low(SkillSuffix(name.value), "Default"),
         author |-> Nil,
         daemons |-> [i \in 1..Len(it) |-> to_declared_daemon(it[i])],
         instructions_content |->
             with_note(medium(Txt("# " \o name.value \o "\n\n## Available Tools\n\n"
                                  \o tool_lines(config.tools)),
                              "Content"),
                       "Generated from tool list"),
         triggers |-> [keywords |-> <<>>, patterns |-> <<>>, commands |-> <<>>],
         source_format |-> "Mcp",
         source_path |-> doc.path,
         import_timestamp |-> now]

(***************************************************************************)
(* SkillFingerprint::from_imported.  Each hash is the sequence of values   *)
(* written to its hasher.                                                  *)
(***************************************************************************)
\* a hasher that is also fed the confidence of each field
Values_with_confidence(fields) ==
    [i \in 1..Len(fields) |-> <<fields[i].value, fields[i].confidence>>]

Values(fields) == [i \in 1..Len(fields) |-> fields[i].value]

RECURSIVE daemons_stream(_)
daemons_stream(daemons) ==
    IF daemons = <<>> THEN <<>>
    ELSE <<Head(daemons).name.value>> \o Values(Head(daemons).methods)
         \o daemons_stream(Tail(daemons))

from_imported(s, now) ==
    LET name_hash == <<s.name.value>>
        description_hash == <<s.description.value>>
        version_hash == <<s.version.value>>
        daemons_hash == daemons_stream(s.daemons)
        instructions_hash == <<s.instructions_content.value>>
        triggers_hash == Values(s.triggers.keywords) \o Values(s.triggers.patterns)
    IN  [name_hash |-> name_hash,
         description_hash |-> description_hash,
         version_hash |-> version_hash,
         daemons_hash |-> daemons_hash,
         instructions_hash |-> instructions_hash,
         triggers_hash |-> triggers_hash,
         combined_hash |-> <<name_hash, description_hash, version_hash,
                             daemons_hash, instructions_hash, triggers_hash>>,
         timestamp |-> now]

(***************************************************************************)
(* DaemonRegistry.  A manifest is [name, methods, auth, platforms]; a      *)
(* manifest method is [name, short, description, params] with short the    *)
(* last dot-separated segment of name.  The two HashMaps of the registry   *)
(* are functions on their key sets.                                        *)
(***************************************************************************)
EmptyMap == [k \in {} |-> None]

Insert(map, k, v) == [x \in DOMAIN map \cup {k} |-> IF x = k THEN v ELSE map[x]]

Dotted(a, b) == a \o "." \o b

RECURSIVE index_methods(_, _, _)
index_methods(methods, manifest_name, ms) ==
    IF ms = <<>> THEN methods
    ELSE LET m == Head(ms)
             m1 == Insert(methods, m.name, <<manifest_name, m>>)
             key == Dotted(manifest_name, m.short)
             m2 == IF key \in DOMAIN m1 THEN m1
                   ELSE Insert(m1, key, <<manifest_name, m>>)
         IN  index_methods(m2, manifest_name, Tail(ms))

add_daemon(reg, manifest) ==
    [daemons |-> Insert(reg.daemons, manifest.name, manifest),
     methods |-> index_methods(reg.methods, manifest.name, manifest.methods)]

NewRegistry == [daemons |-> EmptyMap, methods |-> EmptyMap]

\* load_from_fgp_dir over the manifests that exist, read and parse
RECURSIVE load_from_fgp_dir(_)
load_from_fgp_dir(manifests) ==
    IF manifests = <<>> THEN NewRegistry
    ELSE add_daemon(load_from_fgp_dir(SubSeq(manifests, 1, Len(manifests) - 1)),
                    manifests[Len(manifests)])

daemon_count(reg) == Cardinality(DOMAIN reg.daemons)

(***************************************************************************)
(* enrich_skill.                                                           *)
(***************************************************************************)
EmptyEnrichment ==
    [method_descriptions |-> EmptyMap,
     method_params |-> EmptyMap,
     auth_requirements |-> EmptyMap,
     platform_support |-> EmptyMap,
     verified_daemons |-> <<>>,
     unknown_daemons |-> <<>>]

\* lines 552-558
\* an upgrade that takes a Low name straight to High
upgrade_name_skipping(name) ==
    IF name.confidence \in {"Low", "Medium"}
    THEN [name EXCEPT !.confidence = "High", !.notes = "Confirmed in daemon registry"]
    ELSE name

upgrade_name(name) ==
    IF name.confidence = "Low"
    THEN [name EXCEPT !.confidence = "Medium",
                      !.notes = "Verified against daemon registry"]
    ELSE IF name.confidence = "Medium"
    THEN [name EXCEPT !.confidence = "High",
                      !.notes = "Confirmed in daemon registry"]
    ELSE name

\* lines 594-597
\* an upgrade of the Low methods only
upgrade_method_low_only(method) ==
    IF method.confidence = "Low"
    THEN [method EXCEPT !.confidence = "High", !.notes = "Verified in daemon registry"]
    ELSE method

\* an upgrade that sets every verified method to Medium
upgrade_method_lowering(method) ==
    [method EXCEPT !.confidence = "Medium", !.notes = "Verified in daemon registry"]

upgrade_method(method) ==
    IF method.confidence # "High"
    THEN [method EXCEPT !.confidence = "High", !.notes = "Verified in daemon registry"]
    ELSE method

\* the loop of lines 575-599 over the methods from position i on
RECURSIVE enrich_methods(_, _, _, _, _)
enrich_methods(methods, i, daemon_name, reg, e) ==
    IF i > Len(methods) THEN [methods |-> methods, e |-> e]
    ELSE LET method == methods[i]
             full == Dotted(daemon_name, method.value)
         IN  IF full \in DOMAIN reg.methods
             THEN LET mm == reg.methods[full][2]
                      e1 == IF mm.description # None
                            THEN [e EXCEPT !.method_descriptions =
                                               Insert(@, full, mm.description)]
                            ELSE e
                      e2 == IF mm.params # <<>>
                            THEN [e1 EXCEPT !.method_params = Insert(@, full, mm.params)]
                            ELSE e1
                  IN  enrich_methods([methods EXCEPT ![i] = upgrade_method(method)],
                                     i + 1, daemon_name, reg, e2)
             ELSE enrich_methods(methods, i + 1, daemon_name, reg, e)

\* the loop of lines 603-617
RECURSIVE note_missing(_, _, _, _)
note_missing(ms, known_methods, daemon_name, e) ==
    IF ms = <<>> THEN e
    ELSE LET mm == Head(ms)
             e1 == IF ~HasMethod(known_methods, mm.short) /\ mm.description # None
                   THEN [e EXCEPT !.method_descriptions =
                                      Insert(@, Dotted(daemon_name, mm.short), mm.description)]
                   ELSE e
         IN  note_missing(Tail(ms), known_methods, daemon_name, e1)

\* a loop body that leaves a note on a dependency without a manifest
enrich_daemon_noting_unknown(daemon, reg, e) ==
    LET daemon_name == daemon.name.value
    IN  IF daemon_name \in DOMAIN reg.daemons
        THEN LET manifest == reg.daemons[daemon_name]
                 e1 == [e EXCEPT !.verified_daemons = Append(@, daemon_name)]
                 e2 == IF manifest.auth # Nil
                       THEN [e1 EXCEPT !.auth_requirements =
                                           Insert(@, daemon_name, manifest.auth)]
                       ELSE e1
                 e3 == IF manifest.platforms # <<>>
                       THEN [e2 EXCEPT !.platform_support =
                                           Insert(@, daemon_name, manifest.platforms)]
                       ELSE e2
                 r == enrich_methods(daemon.methods, 1, daemon_name, reg, e3)
             IN  [daemon |-> [daemon EXCEPT !.name = upgrade_name(daemon.name),
                                            !.methods = r.methods],
                  e |-> note_missing(manifest.methods, daemon.methods, daemon_name, r.e)]
        ELSE [daemon |-> [daemon EXCEPT !.name = with_note(@, "Not found in daemon registry")],
              e |-> [e EXCEPT !.unknown_daemons = Append(@, daemon_name)]]

\* the body of the loop over skill.daemons for one daemon
enrich_daemon(daemon, reg, e) ==
    LET daemon_name == daemon.name.value
    IN  IF daemon_name \in DOMAIN reg.daemons
        THEN LET manifest == reg.daemons[daemon_name]
                 e1 == [e EXCEPT !.verified_daemons = Append(@, daemon_name)]
                 e2 == IF manifest.auth # Nil
                       THEN [e1 EXCEPT !.auth_requirements =
                                           Insert(@, daemon_name, manifest.auth)]
                       ELSE e1
                 e3 == IF manifest.platforms # <<>>
                       THEN [e2 EXCEPT !.platform_support =
                                           Insert(@, daemon_name, manifest.platforms)]
                       ELSE e2
                 r == enrich_methods(daemon.methods, 1, daemon_name, reg, e3)
             IN  [daemon |-> [daemon EXCEPT !.name = upgrade_name(daemon.name),
                                            !.methods = r.methods],
                  e |-> note_missing(manifest.methods, daemon.methods, daemon_name, r.e)]
        ELSE [daemon |-> daemon,
              e |-> [e EXCEPT !.unknown_daemons = Append(@, daemon_name)]]

RECURSIVE enrich_daemons(_, _, _, _)
enrich_daemons(daemons, i, reg, e) ==
    IF i > Len(daemons) THEN [daemons |-> daemons, e |-> e]
    ELSE LET r == enrich_daemon(daemons[i], reg, e)
         IN  enrich_daemons([daemons EXCEPT ![i] = r.daemon], i + 1, reg, r.e)

\* returns the skill as mutated in place and the EnrichmentData
enrich_skill(s, reg) ==
    LET r == enrich_daemons(s.daemons, 1, reg, EmptyEnrichment)
    IN  [skill |-> [s EXCEPT !.daemons = r.daemons], enrichment |-> r.e]

(***************************************************************************)
(* Quality assessment.                                                     *)
(***************************************************************************)
Min(a, b) == IF a < b THEN a ELSE b

Max(a, b) == IF a > b THEN a ELSE b

\* bands that are ten points lower
from_score_lenient(score) ==
    IF score >= 80 THEN "A"
    ELSE IF score >= 70 THEN "B"
    ELSE IF score >= 60 THEN "C"
    ELSE IF score >= 50 THEN "D"
    ELSE "F"

\* QualityGrade::from_score
from_score(score) ==
    IF score >= 90 /\ score <= 100 THEN "A"
    ELSE IF score >= 80 /\ score <= 89 THEN "B"
    ELSE IF score >= 70 /\ score <= 79 THEN "C"
    ELSE IF score >= 60 /\ score <= 69 THEN "D"
    ELSE "F"

\* a weighting with the metadata and dependency weights exchanged
overall_swapped(b) ==
    (b.metadata_score * 30 + b.daemon_score * 25 + b.instructions_score * 25
        + b.trigger_score * 10 + b.config_score * 10) \div 100

\* QualityBreakdown::overall
overall(b) ==
    (b.metadata_score * 25 + b.daemon_score * 30 + b.instructions_score * 25
        + b.trigger_score * 10 + b.config_score * 10) \div 100

Issue(category, priority, field, message) ==
    [category |-> category, priority |-> priority, field |-> field, message |-> message]

Recommendation(priority, title) == [priority |-> priority, title |-> title]

Priorities == <<"Critical", "High", "Medium", "Low">>

\* the issues left in the order the scoring passes found them
sort_by_priority_unsorted(xs) == xs

\* sort_by(|a, b| a.priority.cmp(&b.priority)): a stable sort on the priority
sort_by_priority(xs) ==
    SelectSeq(xs, LAMBDA x : x.priority = "Critical")
    \o SelectSeq(xs, LAMBDA x : x.priority = "High")
    \o SelectSeq(xs, LAMBDA x : x.priority = "Medium")
    \o SelectSeq(xs, LAMBDA x : x.priority = "Low")

RECURSIVE method_count(_)
method_count(daemons) ==
    IF daemons = <<>> THEN 0
    ELSE Len(Head(daemons).methods) + method_count(Tail(daemons))

\* lines 798-910: [score, issues]
metadata_scoring(s) ==
    LET name ==
            CASE s.name.confidence = "High" -> [score |-> 20, issues |-> <<>>]
              [] s.name.confidence = "Medium" ->
                    [score |-> 15,
                     issues |-> <<Issue("LowConfidence", "Low", "name",
                                        "Skill name has medium confidence")>>]
              [] OTHER ->
                    [score |-> 5,
                     issues |-> <<Issue("LowConfidence", "High", "name",
                                        "Skill name has low confidence")>>]
        version ==
            CASE s.version.confidence = "High" -> [score |-> 15, issues |-> <<>>]
              [] s.version.confidence = "Medium" -> [score |-> 10, issues |-> <<>>]
              [] s.version.confidence = "Low" ->
                    [score |-> 5,
                     issues |-> <<Issue("PlaceholderValue", "Medium", "version",
                                        "Version is a placeholder value")>>]
              [] OTHER ->
                    [score |-> 0,
                     issues |-> <<Issue("MissingRequired", "High", "version",
                                        "Version could not be determined")>>]
        description ==
            CASE s.description.confidence = "High" ->
                    IF s.description.value.len < 20
                    THEN [score |-> 25 - 5,
                          issues |-> <<Issue("LowConfidence", "Low", "description",
                                             "Description is very short")>>]
                    ELSE [score |-> 25, issues |-> <<>>]
              [] s.description.confidence = "Medium" -> [score |-> 15, issues |-> <<>>]
              [] OTHER ->
                    [score |-> 5,
                     issues |-> <<Issue("LowConfidence", "Medium", "description",
                                        "Description has low confidence")>>]
        author ==
            IF s.author # Nil
            THEN IF s.author.name.confidence = "High" THEN [score |-> 20, issues |-> <<>>]
                 ELSE IF s.author.name.value # "Unknown" THEN [score |-> 10, issues |-> <<>>]
                 ELSE [score |-> 2,
                       issues |-> <<Issue("MissingRequired", "Medium", "author",
                                          "Author information is missing")>>]
            ELSE [score |-> 0,
                  issues |-> <<Issue("MissingRequired", "Medium", "author",
                                     "No author information")>>]
        license == 10
    IN  [score |-> name.score + version.score + description.score + author.score + license,
         issues |-> name.issues \o version.issues \o description.issues \o author.issues]

\* a bonus without the cap of 40
verified_bonus_uncapped(verified, n_daemons) ==
    LET verified_ratio == IF n_daemons > 0 THEN (verified * 100) \div n_daemons ELSE 0
    IN  (40 * verified_ratio) \div 100

\* lines 937-943: the bonus for verified daemons
verified_bonus(verified, n_daemons) ==
    LET verified_ratio == IF n_daemons > 0 THEN (verified * 100) \div n_daemons ELSE 0
    IN  Min((40 * verified_ratio) \div 100, 40)

\* a dependency score without the partial credit of the branch without a report
daemon_scoring_no_partial_credit(s, e) ==
    IF s.daemons = <<>>
    THEN [score |-> 0,
          issues |-> <<Issue("MissingRequired", "Critical", "daemons",
                             "No daemons detected")>>]
    ELSE LET n_daemons == Len(s.daemons)
             methods == method_count(s.daemons)
             base == Min(30, n_daemons * 15)
                     + (IF methods > 0 THEN Min(30, methods * 5) ELSE 0)
         IN  IF e # Nil
             THEN [score |-> base + verified_bonus(Len(e.verified_daemons), n_daemons),
                   issues |-> [i \in 1..Len(e.unknown_daemons) |->
                                  Issue("UnverifiedDaemon", "High",
                                        Dotted("daemon", e.unknown_daemons[i]),
                                        "Daemon not found in registry")]]
             ELSE [score |-> base,
                   issues |-> <<Issue("UnverifiedDaemon", "Medium", "daemons",
                                      "Daemons not verified against registry")>>]

\* lines 912-966
daemon_scoring(s, e) ==
    IF s.daemons = <<>>
    THEN [score |-> 0,
          issues |-> <<Issue("MissingRequired", "Critical", "daemons",
                             "No daemons detected")>>]
    ELSE LET n_daemons == Len(s.daemons)
             methods == method_count(s.daemons)
             base == Min(30, n_daemons * 15)
                     + (IF methods > 0 THEN Min(30, methods * 5) ELSE 0)
         IN  IF e # Nil
             THEN [score |-> base + verified_bonus(Len(e.verified_daemons), n_daemons),
                   issues |-> [i \in 1..Len(e.unknown_daemons) |->
                                  Issue("UnverifiedDaemon", "High",
                                        Dotted("daemon", e.unknown_daemons[i]),
                                        "Daemon not found in registry")]]
             ELSE [score |-> base + 20,
                   issues |-> <<Issue("UnverifiedDaemon", "Medium", "daemons",
                                      "Daemons not verified against registry")>>]

\* lines 968-1002
instructions_scoring(s) ==
    LET c == s.instructions_content.confidence
        by_confidence ==
            CASE c = "High" -> 50 [] c = "Medium" -> 35 [] c = "Low" -> 20 [] OTHER -> 5
        instruction_len == s.instructions_content.value.len
        by_len ==
            IF instruction_len > 500 THEN 30
            ELSE IF instruction_len > 200 THEN 20
            ELSE IF instruction_len > 50 THEN 10
            ELSE 0
        by_example == IF s.instructions_content.value.fence THEN 20 ELSE 0
    IN  [score |-> Min(by_confidence + by_len + by_example, 100),
         issues |-> IF instruction_len > 50 THEN <<>>
                    ELSE <<Issue("LowConfidence", "High", "instructions",
                                 "Instructions are very brief")>>]

\* lines 1004-1027
trigger_scoring(s) ==
    LET trigger_count == Len(s.triggers.keywords) + Len(s.triggers.patterns)
                         + Len(s.triggers.commands)
    IN  IF trigger_count = 0
        THEN [score |-> 0,
              issues |-> <<Issue("NoTriggers", "Medium", "triggers", "No triggers defined")>>]
        ELSE [score |-> Min(Min(Len(s.triggers.keywords) * 15, 45)
                            + Min(Len(s.triggers.patterns) * 20, 40)
                            + Min(Len(s.triggers.commands) * 10, 15), 100),
              issues |-> <<>>]

\* a configuration score that gives the full 100 when there is no report
config_scoring_unknown_as_full(s, e) ==
    IF e # Nil
    THEN LET descs == Cardinality(DOMAIN e.method_descriptions)
             ratio == (descs * 100) \div Max(method_count(s.daemons), 1)
         IN  [score |-> Min((IF DOMAIN e.auth_requirements # {} THEN 40 ELSE 0)
                            + (IF DOMAIN e.platform_support # {} THEN 20 ELSE 0)
                            + (IF descs # 0 THEN Min((ratio * 40) \div 100, 40) ELSE 0),
                            100),
              issues |-> <<>>]
    ELSE [score |-> 100, issues |-> <<>>]

\* lines 1029-1058
config_scoring(s, e) ==
    IF e # Nil
    THEN LET descs == Cardinality(DOMAIN e.method_descriptions)
             ratio == (descs * 100) \div Max(method_count(s.daemons), 1)
         IN  [score |-> Min((IF DOMAIN e.auth_requirements # {} THEN 40 ELSE 0)
                            + (IF DOMAIN e.platform_support # {} THEN 20 ELSE 0)
                            + (IF descs # 0 THEN Min((ratio * 40) \div 100, 40) ELSE 0),
                            100),
              issues |-> <<>>]
    ELSE [score |-> 20,
          issues |-> <<Issue("MissingAuth", "Medium", "auth",
                             "Authentication requirements unknown")
                       @@ [suggestion |->
                              "Run with --enrich or manually check daemon auth needs"]>>]

get_format_limitations(format) ==
    CASE format = "ClaudeCode" ->
            <<"Workflows not included in export format",
              "Config options not recoverable",
              "Some triggers may be inferred">>
      [] format = "Cursor" ->
            <<"No structured metadata in format",
              "Daemon/method info must be inferred from text",
              "No version or author information",
              "Pure markdown format has low fidelity (~50%)">>
      [] format = "Codex" ->
            <<"Minimal schema format (~25% fidelity)",
              "No detailed instructions",
              "Tool list only, no method parameters">>
      [] format = "Mcp" ->
            <<"Tool definitions only (~30% fidelity)",
              "No workflow or trigger information",
              "Method names may need translation">>
      [] format = "Zed" ->
            <<"Context-only format (~40% fidelity)",
              "No structured daemon configuration",
              "Rules may not map to FGP concepts">>
      [] format = "Windsurf" ->
            <<"Similar limitations to Claude Code",
              "Instructions may need adaptation">>
      [] format = "Gemini" ->
            <<"Capabilities may not map directly to FGP methods",
              "Extension config not all recoverable">>
      [] OTHER ->
            <<"Conventions format is minimal (~35% fidelity)",
              "No tool/daemon definitions",
              "Style preferences only">>

\* lines 1066-1192
recommendations_for(issues, breakdown, grade, enriched) ==
    LET count(p) == Len(SelectSeq(issues, LAMBDA i : i.priority = p))
        when(c, r) == IF c THEN <<r>> ELSE <<>>
        closing ==
            CASE grade = "A" -> Recommendation("Low", "Ready for Use")
              [] grade = "B" -> Recommendation("Low", "Good Quality Import")
              [] grade \in {"C", "D"} -> Recommendation("Medium", "Manual Review Required")
              [] OTHER -> Recommendation("High", "Significant Work Needed")
    IN  sort_by_priority(
            when(count("Critical") > 0,
                 Recommendation("Critical", "Fix Critical Issues First"))
            \o when(count("High") > 0,
                    Recommendation("High", "Address High Priority Issues"))
            \o when(breakdown.metadata_score < 70,
                    Recommendation("Medium", "Complete Metadata"))
            \o when(breakdown.daemon_score < 70 /\ ~enriched,
                    Recommendation("High", "Verify Daemon Configuration"))
            \o when(breakdown.instructions_score < 70,
                    Recommendation("Medium", "Improve Instructions"))
            \o when(breakdown.trigger_score < 50,
                    Recommendation("Low", "Add Triggers"))
            \o <<closing>>)

analyze_quality(s, e) ==
    LET metadata == metadata_scoring(s)
        daemon == daemon_scoring(s, e)
        instructions == instructions_scoring(s)
        trigger == trigger_scoring(s)
        config == config_scoring(s, e)
        issues == sort_by_priority(metadata.issues \o daemon.issues \o instructions.issues
                                   \o trigger.issues \o config.issues)
        breakdown == [metadata_score |-> metadata.score,
                      daemon_score |-> daemon.score,
                      instructions_score |-> instructions.score,
                      trigger_score |-> trigger.score,
                      config_score |-> config.score]
        score == overall(breakdown)
        grade == from_score(score)
    IN  [grade |-> grade,
         score |-> score,
         breakdown |-> breakdown,
         issues |-> issues,
         recommendations |-> recommendations_for(issues, breakdown, grade, e # Nil),
         format_limitations |-> get_format_limitations(s.source_format)]

(***************************************************************************)
(* Sync analysis.  The .sync.json of the output directory is               *)
(* [kind |-> "absent"], [kind |-> "garbage"] (unreadable, or not the JSON  *)
(* of a SyncMetadata) or [kind |-> "metadata", ...].                       *)
(***************************************************************************)
Absent == [kind |-> "absent"]

Garbage == [kind |-> "garbage"]

Diff(field, significance, current_value) ==
    [field |-> field, change_type |-> "Modified", significance |-> significance,
     current_value |-> current_value]

\* lines 1643-1660: canonical_path is Nil or the directory holding file
load_previous_fingerprint(canonical_path, file) ==
    IF canonical_path # Nil /\ file.kind = "metadata" THEN file.fingerprint ELSE Nil

\* a comparison that leaves the version group out
field_diffs_without_version(imported, prev, cur) ==
    LET when(c, d) == IF c THEN <<d>> ELSE <<>>
    IN  when(prev.name_hash # cur.name_hash,
             Diff("name", "Critical", <<imported.name.value>>))
        \o when(prev.description_hash # cur.description_hash,
                Diff("description", "Minor", <<imported.description.value.s>>))
        \o when(prev.daemons_hash # cur.daemons_hash,
                Diff("daemons", "Critical", <<Len(imported.daemons), "daemons">>))
        \o when(prev.instructions_hash # cur.instructions_hash,
                Diff("instructions", "Important",
                     <<imported.instructions_content.value.len, "chars">>))
        \o when(prev.triggers_hash # cur.triggers_hash,
                Diff("triggers", "Minor",
                     <<Len(imported.triggers.keywords) + Len(imported.triggers.patterns),
                       "triggers">>))

\* lines 1669-1730
field_diffs(imported, prev, cur) ==
    LET when(c, d) == IF c THEN <<d>> ELSE <<>>
    IN  when(prev.name_hash # cur.name_hash,
             Diff("name", "Critical", <<imported.name.value>>))
        \o when(prev.description_hash # cur.description_hash,
                Diff("description", "Minor", <<imported.description.value.s>>))
        \o when(prev.version_hash # cur.version_hash,
                Diff("version", "Important", <<imported.version.value>>))
        \o when(prev.daemons_hash # cur.daemons_hash,
                Diff("daemons", "Critical", <<Len(imported.daemons), "daemons">>))
        \o when(prev.instructions_hash # cur.instructions_hash,
                Diff("instructions", "Important",
                     <<imported.instructions_content.value.len, "chars">>))
        \o when(prev.triggers_hash # cur.triggers_hash,
                Diff("triggers", "Minor",
                     <<Len(imported.triggers.keywords) + Len(imported.triggers.patterns),
                       "triggers">>))

\* a recommendation that asks for an import of a skill that is in sync
recommended_action_reimport(status) ==
    CASE status \in {"InSync", "SourceNewer"} -> "Import"
      [] status = "CanonicalNewer" -> "Export"
      [] status = "Diverged" -> "Merge"
      [] OTHER -> "Initialize"

\* lines 1743-1790
recommended_action(status) ==
    CASE status = "InSync" -> "None"
      [] status = "SourceNewer" -> "Import"
      [] status = "CanonicalNewer" -> "Export"
      [] status = "Diverged" -> "Merge"
      [] OTHER -> "Initialize"

analyze_sync(imported, canonical_path, file, now) ==
    LET current_fingerprint == from_imported(imported, now)
        previous_fingerprint == load_previous_fingerprint(canonical_path, file)
        status == IF previous_fingerprint = Nil THEN "Unknown"
                  ELSE IF previous_fingerprint.combined_hash = current_fingerprint.combined_hash
                  THEN "InSync"
                  ELSE "SourceNewer"
        diffs == IF status = "SourceNewer"
                 THEN field_diffs(imported, previous_fingerprint, current_fingerprint)
                 ELSE <<>>
    IN  [status |-> status,
         diffs |-> diffs,
         current_fingerprint |-> current_fingerprint,
         previous_fingerprint |-> previous_fingerprint,
         recommendation |-> [action |-> recommended_action(status)]]

to_key(format) ==
    CASE format = "ClaudeCode" -> "claude-code"
      [] format = "Cursor" -> "cursor"
      [] format = "Codex" -> "codex"
      [] format = "Mcp" -> "mcp"
      [] format = "Zed" -> "zed"
      [] format = "Windsurf" -> "windsurf"
      [] format = "Gemini" -> "gemini"
      [] OTHER -> "aider"

generate_sync_metadata(s, now) ==
    [kind |-> "metadata",
     source_path |-> s.source_path,
     source_format |-> to_key(s.source_format),
     fingerprint |-> from_imported(s, now),
     last_sync |-> now,
     direction |-> "import"]

(***************************************************************************)
(* generate_skill_yaml.  The document is the sequence of its lines, each   *)
(* [key, value, marker]: the key written, the value after it, and the      *)
(* inline comment [tag, text] that follows the value (or stands on the     *)
(* next line), Nil when there is none.  The key "#" is a comment line.     *)
(***************************************************************************)
Line(key, value, marker) == [key |-> key, value |-> value, marker |-> marker]

LowConfidenceMarker(text) == [tag |-> "LOW-CONFIDENCE", text |-> text]

IncompleteMarker(text) == [tag |-> "INCOMPLETE", text |-> text]

\* ImportFormat::name
format_name(format) ==
    CASE format = "ClaudeCode" -> "Claude Code"
      [] format = "Cursor" -> "Cursor"
      [] format = "Codex" -> "Codex"
      [] format = "Mcp" -> "MCP"
      [] format = "Zed" -> "Zed"
      [] format = "Windsurf" -> "Windsurf"
      [] format = "Gemini" -> "Gemini"
      [] OTHER -> "Aider"

\* the lines of one dependency (lines 2987-3004)
daemon_lines(daemon) ==
    <<Line("daemons.name", daemon.name.value,
           IF daemon.name.confidence # "High"
           THEN LowConfidenceMarker("Verify daemon name") ELSE Nil)>>
    \o (IF daemon.version.value # None
        THEN <<Line("daemons.version", daemon.version.value, Nil)>> ELSE <<>>)
    \o (IF daemon.optional.value THEN <<Line("daemons.optional", TRUE, Nil)>> ELSE <<>>)
    \o [i \in 1..Len(daemon.methods) |->
           Line("daemons.methods", daemon.methods[i].value, Nil)]

RECURSIVE all_daemon_lines(_)
all_daemon_lines(daemons) ==
    IF daemons = <<>> THEN <<>>
    ELSE daemon_lines(Head(daemons)) \o all_daemon_lines(Tail(daemons))

trigger_lines(key, fields) == [i \in 1..Len(fields) |-> Line(key, fields[i].value, Nil)]

generate_skill_yaml(s) ==
    [kind |-> "yaml",
     lines |->
        <<Line("#", "Imported from " \o format_name(s.source_format), Nil),
          Line("#", "Fields marked [*LOW-CONFIDENCE*] or [*INCOMPLETE*] need review", Nil),
          Line("name", s.name.value, Nil),
          Line("version", s.version.value,
               IF s.version.confidence # "High"
               THEN LowConfidenceMarker("Update version") ELSE Nil),
          Line("description", s.description.value, Nil),
          Line("author.name", "Unknown", IncompleteMarker("Add author name")),
          Line("license", "MIT", LowConfidenceMarker("Verify license"))>>
        \o all_daemon_lines(s.daemons)
        \o <<Line("instructions.core", "./instructions/core.md", Nil),
             Line("instructions." \o to_key(s.source_format),
                  "./instructions/" \o to_key(s.source_format) \o ".md", Nil)>>
        \o trigger_lines("triggers.keywords", s.triggers.keywords)
        \o trigger_lines("triggers.patterns", s.triggers.patterns)
        \o trigger_lines("triggers.commands", s.triggers.commands)
        \o <<Line("#", "workflows", IncompleteMarker("Workflows not recoverable from export")),
             Line("#", "config",
                  IncompleteMarker("Config options not recoverable from export")),
             Line("#", "auth", IncompleteMarker("Auth requirements - verify these"))>>]

(***************************************************************************)
(* Format detection and the --format hint.  ends_with is decided over the  *)
(* file-name stems of the model.                                           *)
(***************************************************************************)
Stems == {"", "SKILL", "test", "my", "notes", "gemini-extension", "CONVENTIONS", "project"}

EndsWith(filename, suffix) == \E stem \in Stems : filename = stem \o suffix

\* detection by suffix alone, without the test for the bare name CONVENTIONS.md
detect_by_suffix(filename) ==
    IF filename = "SKILL.md" THEN "ClaudeCode"
    ELSE IF EndsWith(filename, ".cursorrules") \/ filename = ".cursorrules" THEN "Cursor"
    ELSE IF EndsWith(filename, ".codex.json") THEN "Codex"
    ELSE IF EndsWith(filename, ".mcp.json") THEN "Mcp"
    ELSE IF EndsWith(filename, ".rules") THEN "Zed"
    ELSE IF EndsWith(filename, ".windsurf.md") THEN "Windsurf"
    ELSE IF filename = "gemini-extension.json" THEN "Gemini"
    ELSE IF EndsWith(filename, ".CONVENTIONS.md") THEN "Aider"
    ELSE None

\* ImportFormat::detect: the format, or None
detect(filename) ==
    IF filename = "SKILL.md" THEN "ClaudeCode"
    ELSE IF EndsWith(filename, ".cursorrules") \/ filename = ".cursorrules" THEN "Cursor"
    ELSE IF EndsWith(filename, ".codex.json") THEN "Codex"
    ELSE IF EndsWith(filename, ".mcp.json") THEN "Mcp"
    ELSE IF EndsWith(filename, ".rules") THEN "Zed"
    ELSE IF EndsWith(filename, ".windsurf.md") THEN "Windsurf"
    ELSE IF filename = "gemini-extension.json" THEN "Gemini"
    ELSE IF EndsWith(filename, ".CONVENTIONS.md") \/ filename = "CONVENTIONS.md" THEN "Aider"
    ELSE None

\* lines 3487-3506: the format, or None when import_skill bails
resolve_format(hint, filename) ==
    IF hint # None
    THEN CASE to_lowercase(hint) \in {"claude-code", "claude"} -> "ClaudeCode"
           [] to_lowercase(hint) = "cursor" -> "Cursor"
           [] to_lowercase(hint) = "codex" -> "Codex"
           [] to_lowercase(hint) = "mcp" -> "Mcp"
           [] to_lowercase(hint) = "zed" -> "Zed"
           [] to_lowercase(hint) = "windsurf" -> "Windsurf"
           [] to_lowercase(hint) = "gemini" -> "Gemini"
           [] to_lowercase(hint) = "aider" -> "Aider"
           [] OTHER -> None
    ELSE detect(filename)

(***************************************************************************)
(* The documents and registries of the model.                              *)
(***************************************************************************)
NoHits ==
    [calls |-> <<>>, clients |-> <<>>, clis |-> <<>>, tables |-> <<>>,
     trigger_items |-> <<>>, commands |-> <<>>]

BodyA ==
    [text |-> [s |-> "body-a", len |-> 120, fence |-> FALSE],
     para |-> Txt("Sends mail for the user."),
     h1 |-> "Foo Bar"] @@ NoHits

BodyB ==
    [text |-> [s |-> "body-b", len |-> 640, fence |-> TRUE],
     para |-> Txt("Sends mail for the user."),
     h1 |-> "Foo Bar",
     calls |-> <<Tool("gmail", "send")>>,
     commands |-> <<"/mail">>] @@ NoHits

SkillPath == [dir |-> "foo-bar", file |-> "SKILL.md"]

Document(name, description, version, tools, triggers, body) ==
    [path |-> SkillPath,
     fm_name |-> name,
     fm_description |-> description,
     fm_version |-> version,
     tools |-> tools,
     fm_triggers |-> triggers,
     body |-> body]

GmailSend == Tool("gmail", "send")

GmailSlack == Tool("gmail", "slack")

SlackSend == Tool("slack", "send")

BaseDocument ==
    Document("foo-bar", Txt("Foo Bar skill"), None, <<GmailSend>>, <<>>, BodyA)

\* BaseDocument and the documents that differ from it in one group of fields
\* (for the tools: a second service, the same service with a repeated tool)
Documents ==
    {BaseDocument,
     [BaseDocument EXCEPT !.fm_name = None],
     [BaseDocument EXCEPT !.fm_description = Nil],
     [BaseDocument EXCEPT !.fm_version = "2.1.0"],
     [BaseDocument EXCEPT !.fm_triggers = <<"mail">>],
     [BaseDocument EXCEPT !.body = BodyB],
     [BaseDocument EXCEPT !.tools = <<GmailSend, SlackSend>>],
     [BaseDocument EXCEPT !.tools = <<GmailSend, GmailSlack, GmailSend>>]}

GmailManifest ==
    [name |-> "gmail",
     methods |-> <<[name |-> "gmail.send", short |-> "send",
                    description |-> "Send an email", params |-> <<"to", "body">>],
                   [name |-> "gmail.inbox", short |-> "inbox",
                    description |-> None, params |-> <<>>]>>,
     auth |-> [auth_type |-> "oauth2", provider |-> "google"],
     platforms |-> <<"darwin">>]

SlackManifest ==
    [name |-> "slack",
     methods |-> <<[name |-> "post", short |-> "post",
                    description |-> "Post a message", params |-> <<>>]>>,
     auth |-> Nil,
     platforms |-> <<>>]

\* what load_default finds: no FGP directory or no manifest, or these manifests
Registries == {<<>>, <<GmailManifest, SlackManifest>>}

FormatHints == {None, "claude", "bogus"}

\* the <name> directory import_skill writes into
OutputDir == [dir |-> "output"]

(***************************************************************************)
(* import_skill.                                                           *)
(***************************************************************************)
\* the match of lines 3519-3528
parse(format, doc, now, order) ==
    CASE format = "ClaudeCode" -> parse_claude_code(doc, now, order)
      [] format = "Cursor" -> parse_cursor(doc, now, order)
      [] format = "Codex" -> parse_codex(doc, now, order)
      [] format = "Mcp" -> parse_mcp(doc, now, order)
      [] format = "Zed" -> parse_zed(doc, now, order)
      [] format = "Windsurf" -> parse_windsurf(doc, now, order)
      [] format = "Gemini" -> parse_gemini(doc, now, order)
      [] format = "Aider" -> parse_aider(doc, now, order)

\* the HashMap that the parser of the format iterates
dependency_map(format, doc) ==
    CASE format = "ClaudeCode" -> daemons_map(frontmatter_or_default(doc).tools, doc.body)
      [] format \in {"Cursor", "Zed", "Windsurf", "Aider"} -> daemons_map(<<>>, doc.body)
      [] format = "Codex" ->
            daemons_map(doc.json.tools, instructions_of(doc.json, high("", "Default")).body)
      [] format = "Mcp" -> PushMcpTools(<<>>, doc.json.tools)
      [] format = "Gemini" -> PushCapabilities(<<>>, doc.json.capabilities)

\* enrichment with whatever registry was loaded, an empty one included
enrich_step_with_empty_registry(s, enrich, manifests) ==
    IF enrich THEN enrich_skill(s, load_from_fgp_dir(manifests))
    ELSE [skill |-> s, enrichment |-> Nil]

\* lines 3530-3588: [skill, enrichment]
enrich_step(s, enrich, manifests) ==
    LET reg == load_from_fgp_dir(manifests)
    IN  IF enrich /\ daemon_count(reg) > 0
        THEN enrich_skill(s, reg)
        ELSE [skill |-> s, enrichment |-> Nil]

ImportError ==
    /\ last_op' = "error"
    /\ UNCHANGED <<source, registry, sync_file, agent_md, skill_yaml, skill, enrichment,
                   quality, sync, clock>>
    /\ UNCHANGED last_imported

\* the source path names no file (line 3482)
NoFile == [kind |-> "no file"]

\* serde_json::from_str fails on the content: a manifest that is not valid JSON,
\* or a markdown file read as a manifest
parse_fails(format, doc) ==
    /\ format \in {"Gemini", "Codex", "Mcp"}
    /\ ("json" \notin DOMAIN doc \/ doc.json = Malformed)

\* the writes of lines 3688-3728 in order; a run is cut short by the first that fails
Writes == <<"dirs", "skill.yaml", "core.md", "agent.md", "report", ".sync.json", ".gitkeep">>

NoFault == "none"

Faults == {Writes[i] : i \in 1..Len(Writes)}

\* the number of writes attempted when the write `fault` fails
Attempted(fault) ==
    IF fault = NoFault THEN Len(Writes) + 1
    ELSE CHOOSE i \in 1..Len(Writes) : Writes[i] = fault

\* a file after a run: written when its write succeeded; when its write failed, as it
\* was (the file could not be opened) or cut short (opened and truncated, then the
\* write failed); untouched when the run ended before it
Written(file, old, new, fault, truncated) ==
    LET at == CHOOSE i \in 1..Len(Writes) : Writes[i] = file
    IN  IF Attempted(fault) > at THEN new
        ELSE IF Attempted(fault) = at /\ truncated THEN Garbage
        ELSE old

ImportSkill(hint, dry_run, enrich, fault) ==
    /\ clock < MaxClock
    /\ IF source = NoFile THEN ImportError
       ELSE IF resolve_format(hint, source.path.file) = None THEN ImportError
       ELSE IF parse_fails(resolve_format(hint, source.path.file), source) THEN ImportError
       ELSE LET format == resolve_format(hint, source.path.file)
                now == clock
            IN  \E order \in IterationOrders(Len(dependency_map(format, source))) :
                    LET r == enrich_step(parse(format, source, now, order), enrich, registry)
                    IN  /\ skill' = r.skill
                        /\ enrichment' = r.enrichment
                        /\ quality' = analyze_quality(r.skill, r.enrichment)
                        /\ clock' = clock + 1
                        /\ IF dry_run
                           THEN /\ last_op' = "dry_run"
                                /\ sync' = Nil
                                /\ UNCHANGED <<sync_file, agent_md, skill_yaml, last_imported>>
                           ELSE \E truncated \in (IF fault = NoFault THEN {FALSE} ELSE BOOLEAN) :
                                /\ last_op' = IF fault = NoFault THEN "import"
                                              ELSE "write_error"
                                /\ skill_yaml' = Written("skill.yaml", skill_yaml,
                                                         generate_skill_yaml(r.skill),
                                                         fault, truncated)
                                /\ agent_md' = Written("agent.md", agent_md, source,
                                                       fault, truncated)
                                /\ sync' = IF Attempted(fault) > 4
                                           THEN analyze_sync(r.skill, OutputDir, sync_file, now)
                                           ELSE Nil
                                /\ sync_file' = Written(".sync.json", sync_file,
                                                        generate_sync_metadata(r.skill, now),
                                                        fault, truncated)
                                /\ last_imported' =
                                       IF fault = NoFault
                                       THEN generate_sync_metadata(r.skill, now).fingerprint
                                       ELSE last_imported
                        /\ UNCHANGED <<source, registry>>

Import == \E hint \in FormatHints, dry_run \in BOOLEAN, enrich \in BOOLEAN :
              ImportSkill(hint, dry_run, enrich, NoFault)

\* a caller of analyze_sync that has no canonical directory, or has one
AnalyzeSync ==
    /\ clock < MaxClock
    /\ skill # Nil
    /\ \E canonical_path \in {Nil, OutputDir} :
           sync' = analyze_sync(skill, canonical_path, sync_file, clock)
    /\ last_op' = "analyze"
    /\ UNCHANGED <<source, registry, sync_file, agent_md, skill_yaml, skill, enrichment,
                   quality, clock>>
    /\ UNCHANGED last_imported

(***************************************************************************)
(* The environment: the user edits the source, and the sync file is lost   *)
(* or damaged.                                                             *)
(***************************************************************************)
EditSource ==
    /\ clock < MaxClock
    /\ \E d \in Documents : d # source /\ source' = d
    /\ last_op' = "edit"
    /\ UNCHANGED <<registry, sync_file, agent_md, skill_yaml, skill, enrichment, quality,
                   sync, clock>>
    /\ UNCHANGED last_imported

DamageSyncFile ==
    /\ clock < MaxClock
    /\ \E f \in {Absent, Garbage} : f # sync_file /\ sync_file' = f
    /\ last_op' = "damage"
    /\ UNCHANGED <<source, registry, agent_md, skill_yaml, skill, enrichment, quality,
                   sync, clock>>
    /\ UNCHANGED last_imported

Init ==
    /\ source \in Documents
    /\ registry \in Registries
    /\ sync_file = Absent
    /\ agent_md = Nil
    /\ skill_yaml = Absent
    /\ last_imported = Nil
    /\ skill = Nil
    /\ enrichment = Nil
    /\ quality = Nil
    /\ sync = Nil
    /\ last_op = "init"
    /\ clock = 0

Next == Import \/ AnalyzeSync \/ EditSource \/ DamageSyncFile

Spec == Init /\ [][Next]_vars

(***************************************************************************)
(* Properties of the import pipeline and of sync analysis.                 *)
(***************************************************************************)
\* the step is a successful non-dry-run import_skill
ImportStep == last_op' = "import" /\ clock' = clock + 1

\* the step is a successful import_skill, dry-run or not
ParseStep == last_op' \in {"import", "dry_run"} /\ clock' = clock + 1

\* skill is the UIR whose fingerprint the sync file stores
StoredImport ==
    /\ skill # Nil
    /\ sync_file.kind = "metadata"
    /\ sync_file.last_sync = skill.import_timestamp

\* the six component hashes and the combined hash of a UIR
Hashes(s) == [from_imported(s, 0) EXCEPT !.timestamp = 0]

DependencyNames(s) == {s.daemons[i].name.value : i \in 1..Len(s.daemons)}

DependencyOrder(s) == [i \in 1..Len(s.daemons) |-> s.daemons[i].name.value]

\* which methods belong to which dependency
DependencyMethods(s) ==
    UNION {{<<s.daemons[i].name.value, s.daemons[i].methods[j].value>> :
                j \in 1..Len(s.daemons[i].methods)} : i \in 1..Len(s.daemons)}

\* C1: after a successful non-dry-run import, a second import of the
\* unmodified source into the same directory reports InSync, no diffs and the
\* recommended action None, also for a source that declares two services.
C1_ReimportInSync ==
    [][(ImportStep /\ StoredImport /\ agent_md = source)
         => /\ sync'.status = "InSync"
            /\ sync'.diffs = <<>>
            /\ sync'.recommendation.action = "None"]_vars

\* C2: parsing the same document twice gives UIRs whose six component hashes
\* and combined hash agree, the dependency list being in the same order.
C2_ParserIdempotent ==
    [][(ParseStep /\ last_op \in {"import", "dry_run"})
         => /\ Hashes(skill') = Hashes(skill)
            /\ DependencyOrder(skill') = DependencyOrder(skill)]_vars

\* C3: when the current UIR differs from the stored import's UIR in the set of
\* dependency names or in which methods belong to which dependency, the import
\* does not report InSync and emits a Critical diff for the dependencies.
C3_DependencyDriftDetected ==
    [][(/\ ImportStep
        /\ StoredImport
        /\ \/ DependencyNames(skill') # DependencyNames(skill)
           \/ DependencyMethods(skill') # DependencyMethods(skill))
         => /\ sync'.status # "InSync"
            /\ \E i \in 1..Len(sync'.diffs) :
                   /\ sync'.diffs[i].field = "daemons"
                   /\ sync'.diffs[i].significance = "Critical"]_vars

\* the step ran analyze_sync
AnalyzeStep == ImportStep \/ (last_op' = "analyze" /\ sync' # Nil)

\* C4: analyze_sync has three cases.  Without a readable prior fingerprint (no
\* target path, no sync file, an unparsable one) it reports Unknown, no diffs
\* and Initialize; with a prior whose combined hash equals the current one,
\* InSync, no diffs and None; otherwise SourceNewer and Import.  CanonicalNewer,
\* Diverged, Export and Merge are never produced.
C4_ThreeCases ==
    [][AnalyzeStep =>
        LET prior == sync'.previous_fingerprint
            current == from_imported(skill', 0)
        IN  /\ sync_file.kind # "metadata" => prior = Nil
            /\ (ImportStep /\ sync_file.kind = "metadata") => prior = sync_file.fingerprint
            /\ prior # Nil => prior = sync_file.fingerprint
            /\ prior = Nil =>
                   /\ sync'.status = "Unknown"
                   /\ sync'.diffs = <<>>
                   /\ sync'.recommendation.action = "Initialize"
            /\ (prior # Nil /\ prior.combined_hash = current.combined_hash) =>
                   /\ sync'.status = "InSync"
                   /\ sync'.diffs = <<>>
                   /\ sync'.recommendation.action = "None"
            /\ (prior # Nil /\ prior.combined_hash # current.combined_hash) =>
                   /\ sync'.status = "SourceNewer"
                   /\ sync'.recommendation.action = "Import"
            /\ sync'.status \notin {"CanonicalNewer", "Diverged"}
            /\ sync'.recommendation.action \notin {"Export", "Merge"}]_vars

\* analyze_sync found the sync file unparsable
C4_Witness ==
    /\ last_op = "analyze"
    /\ sync_file = Garbage
    /\ sync.status = "Unknown"
    /\ sync.recommendation.action = "Initialize"

FieldGroups ==
    {"name", "description", "version", "daemons", "instructions", "triggers"}

GroupHash(fp, group) ==
    CASE group = "name" -> fp.name_hash
      [] group = "description" -> fp.description_hash
      [] group = "version" -> fp.version_hash
      [] group = "daemons" -> fp.daemons_hash
      [] group = "instructions" -> fp.instructions_hash
      [] group = "triggers" -> fp.triggers_hash

GroupSignificance(group) ==
    CASE group \in {"name", "daemons"} -> "Critical"
      [] group \in {"version", "instructions"} -> "Important"
      [] group \in {"description", "triggers"} -> "Minor"

\* C5: a SourceNewer result holds exactly one Modified diff for each field
\* group whose stored hash differs from the current one and none for the
\* others, so at least one diff; name and dependencies are Critical, version
\* and instructions Important, description and triggers Minor, none Trivial.
C5_OneDiffPerChangedGroup ==
    (sync # Nil /\ sync.status = "SourceNewer") =>
        /\ \A g \in FieldGroups :
               Cardinality({i \in 1..Len(sync.diffs) : sync.diffs[i].field = g})
                 = IF GroupHash(sync.previous_fingerprint, g)
                        # GroupHash(sync.current_fingerprint, g) THEN 1 ELSE 0
        /\ \A i \in 1..Len(sync.diffs) :
               /\ sync.diffs[i].field \in FieldGroups
               /\ sync.diffs[i].change_type = "Modified"
               /\ sync.diffs[i].significance = GroupSignificance(sync.diffs[i].field)
               /\ sync.diffs[i].significance # "Trivial"
        /\ Len(sync.diffs) >= 1

\* a re-import after an edit of two field groups
C5_Witness ==
    /\ sync # Nil
    /\ last_op = "import"
    /\ sync.status = "SourceNewer"
    /\ Len(sync.diffs) = 2

(***************************************************************************)
(* enrich_skill and the fingerprint on UIRs of every confidence.           *)
(***************************************************************************)
ParsedBase == parse_claude_code(BaseDocument, 0, <<1>>)

Method(name, confidence) == Field(name, confidence, "Frontmatter", None)

\* "send" and "inbox" are methods of the gmail manifest, "fly" of none
EnrichableMethods ==
    {<<>>}
    \cup {<<Method(m, c)>> : m \in {"send", "fly"}, c \in Confidences}
    \cup {<<Method("fly", c), Method("inbox", "Low")>> : c \in Confidences}

\* "gmail" has a manifest, "custom" has none
EnrichableDaemons ==
    {[name |-> Field(n, c, "MethodExtraction", None),
      version |-> with_note(low(">=1.0.0", "Default"), "Default version constraint"),
      optional |-> low(FALSE, "Default"),
      methods |-> ms] :
        n \in {"gmail", "custom"}, c \in Confidences, ms \in EnrichableMethods}

SlackDaemon == to_imported_daemon([name |-> "slack", methods |-> <<Method("post", "Medium")>>])

EnrichableSkills ==
    {[ParsedBase EXCEPT !.daemons = ds] :
        ds \in {<<d>> : d \in EnrichableDaemons}
               \cup {<<d, SlackDaemon>> : d \in {x \in EnrichableDaemons : x.methods = <<>>}}}

InitEnrich ==
    /\ skill \in EnrichableSkills
    /\ registry \in Registries
    /\ source = BaseDocument
    /\ sync_file = Absent
    /\ agent_md = Nil
    /\ skill_yaml = Absent
    /\ last_imported = Nil
    /\ enrichment = Nil
    /\ quality = Nil
    /\ sync = Nil
    /\ last_op = "init"
    /\ clock = 0

\* one call of enrich_skill with the registry that load_default returns
EnrichSkill ==
    /\ clock < MaxClock
    /\ LET r == enrich_skill(skill, load_from_fgp_dir(registry))
       IN  /\ skill' = r.skill
           /\ enrichment' = r.enrichment
    /\ last_op' = "enrich"
    /\ clock' = clock + 1
    /\ UNCHANGED <<source, registry, sync_file, agent_md, skill_yaml, quality, sync>>
    /\ UNCHANGED last_imported

NextEnrich == EnrichSkill \/ AnalyzeSync

SpecEnrich == InitEnrich /\ [][NextEnrich]_vars

\* the UIR with the provenance of every field replaced
Reannotate(s, c, src, n) ==
    LET re(f) == [f EXCEPT !.confidence = c, !.source = src, !.notes = n]
        res(fs) == [i \in 1..Len(fs) |-> re(fs[i])]
    IN  [s EXCEPT !.name = re(@),
                  !.description = re(@),
                  !.version = re(@),
                  !.instructions_content = re(@),
                  !.daemons = [i \in 1..Len(@) |->
                                  [name |-> re(@[i].name),
                                   version |-> re(@[i].version),
                                   optional |-> re(@[i].optional),
                                   methods |-> res(@[i].methods)]],
                  !.triggers = [keywords |-> res(@.keywords),
                                patterns |-> res(@.patterns),
                                commands |-> res(@.commands)]]

Rank(confidence) ==
    CASE confidence = "Unknown" -> 0
      [] confidence = "Low" -> 1
      [] confidence = "Medium" -> 2
      [] confidence = "High" -> 3

\* the step is a call of enrich_skill
EnrichStep == last_op' = "enrich" /\ clock' = clock + 1

\* C6: the component hashes and the combined hash of a UIR are the same on
\* every call and depend on the field values only: a fingerprint taken earlier
\* equals the fingerprint of the UIR as it is after enrich_skill, and of the
\* UIR with any confidence, source tag, notes and timestamp.
C6_FingerprintOfValues ==
    sync # Nil =>
        LET taken == [sync.current_fingerprint EXCEPT !.timestamp = 0]
        IN  /\ Hashes(skill) = taken
            /\ \A c \in Confidences, src \in {"Frontmatter", "Default"},
                  n \in {None, "Verified in daemon registry"}, t \in 0..MaxClock :
                   [from_imported(Reannotate(skill, c, src, n), t) EXCEPT !.timestamp = 0]
                     = taken

\* a fingerprint taken before enrich_skill raised a confidence
C6_Witness ==
    /\ sync # Nil
    /\ last_op = "enrich"
    /\ sync.current_fingerprint.timestamp < clock
    /\ \E i \in 1..Len(skill.daemons) :
           skill.daemons[i].name.notes = "Verified against daemon registry"

\* C9: enrich_skill leaves every dependency name and every method with a
\* confidence at least as high as before (Unknown < Low < Medium < High), on
\* the first pass and on every repeated pass.
C9_ConfidenceMonotone ==
    [][EnrichStep =>
        /\ Len(skill'.daemons) = Len(skill.daemons)
        /\ \A i \in 1..Len(skill.daemons) :
               /\ Rank(skill'.daemons[i].name.confidence)
                    >= Rank(skill.daemons[i].name.confidence)
               /\ Len(skill'.daemons[i].methods) = Len(skill.daemons[i].methods)
               /\ \A j \in 1..Len(skill.daemons[i].methods) :
                      Rank(skill'.daemons[i].methods[j].confidence)
                        >= Rank(skill.daemons[i].methods[j].confidence)]_vars

\* a second pass took a registered dependency name to High
C9_Witness ==
    /\ last_op = "enrich"
    /\ clock = 2
    /\ \E i \in 1..Len(skill.daemons) :
           /\ skill.daemons[i].name.confidence = "High"
           /\ skill.daemons[i].name.notes = "Confirmed in daemon registry"
           /\ \E j \in 1..Len(skill.daemons[i].methods) :
                  skill.daemons[i].methods[j].notes = "Verified in daemon registry"

\* C10: one pass of enrich_skill takes the name confidence of a dependency
\* found in the registry from Low to Medium, from Medium to High and leaves
\* High at High; no dependency name rises more than one level in a pass.
C10_OneLevelPerPass ==
    [][EnrichStep =>
        \A i \in 1..Len(skill.daemons) :
            LET before == skill.daemons[i].name.confidence
                after == skill'.daemons[i].name.confidence
            IN  /\ skill.daemons[i].name.value \in DOMAIN load_from_fgp_dir(registry).daemons
                     => /\ before = "Low" => after = "Medium"
                        /\ before = "Medium" => after = "High"
                        /\ before = "High" => after = "High"
                /\ Rank(after) <= Rank(before) + 1]_vars

\* one pass took a registered dependency name from Low to Medium
C10_Witness ==
    /\ last_op = "enrich"
    /\ clock = 1
    /\ \E i \in 1..Len(skill.daemons) :
           /\ skill.daemons[i].name.confidence = "Medium"
           /\ skill.daemons[i].name.notes = "Verified against daemon registry"

(***************************************************************************)
(* analyze_quality on UIRs and enrichment reports of every score.          *)
(***************************************************************************)
MaxTriggers == 3
MaxDaemons == 3
MaxMethods == 3
MaxVerified == 4

Author(name, confidence) ==
    [name |-> Field(name, confidence, "Frontmatter", None), email |-> Nil, url |-> Nil]

\* [name, version, description, author]
MetadataChoices ==
    {[name |-> [ParsedBase.name EXCEPT !.confidence = nc],
      version |-> [ParsedBase.version EXCEPT !.confidence = vc],
      description |-> d,
      author |-> a] :
        nc \in Confidences, vc \in Confidences,
        d \in {high(Txt("Mail"), "Frontmatter"),
               high(Txt("Sends mail for the user."), "Frontmatter"),
               medium(Txt("Sends mail for the user."), "Content"),
               low(Txt("foo-bar skill"), "Default")},
        a \in {Nil, Author("Ada", "High"), Author("Ada", "Medium"),
               Author("Unknown", "Low")}}

MetadataLow ==
    [name |-> low("foo-bar", "Default"), version |-> unknown("1.0.0"),
     description |-> low(Txt("foo-bar skill"), "Default"), author |-> Nil]

MetadataHigh ==
    [name |-> high("foo-bar", "Frontmatter"), version |-> high("2.1.0", "Frontmatter"),
     description |-> high(Txt("Sends mail for the user."), "Frontmatter"),
     author |-> Author("Ada", "High")]

\* n dependencies of k methods each
DaemonList(n, k) ==
    [i \in 1..n |->
        to_imported_daemon([name |-> "gmail",
                            methods |-> [j \in 1..k |-> Method("send", "High")]])]

DaemonChoices == {DaemonList(n, k) : n \in 0..MaxDaemons, k \in 0..MaxMethods}

\* reports of any content, derived from the UIR or not
EnrichmentChoices ==
    {Nil} \cup
    {[method_descriptions |-> [k \in descs |-> "Send an email"],
      method_params |-> EmptyMap,
      auth_requirements |-> [k \in auth |-> GmailManifest.auth],
      platform_support |-> [k \in plat |-> <<"darwin">>],
      verified_daemons |-> [i \in 1..v |-> "gmail"],
      unknown_daemons |-> unk] :
        descs \in SUBSET {"gmail.send", "gmail.inbox"},
        auth \in {{}, {"gmail"}},
        plat \in {{}, {"gmail"}},
        v \in 0..MaxVerified,
        unk \in {<<>>, <<"custom">>}}

EnrichmentHigh ==
    [method_descriptions |-> [k \in {"gmail.send", "gmail.inbox"} |-> "Send an email"],
     method_params |-> EmptyMap,
     auth_requirements |-> [k \in {"gmail"} |-> GmailManifest.auth],
     platform_support |-> [k \in {"gmail"} |-> <<"darwin">>],
     verified_daemons |-> <<"gmail", "gmail">>,
     unknown_daemons |-> <<>>]

InstructionChoices ==
    {Field([s |-> "body", len |-> n, fence |-> f], c, "Content", None) :
        n \in {0, 50, 51, 200, 201, 500, 501}, f \in BOOLEAN, c \in Confidences}

InstructionsLow == unknown([s |-> "body", len |-> 0, fence |-> FALSE])

InstructionsHigh == high([s |-> "body", len |-> 501, fence |-> TRUE], "Content")

Keywords(n) == [i \in 1..n |-> medium("mail", "Content")]

TriggerChoices ==
    {[keywords |-> Keywords(k), patterns |-> Keywords(q), commands |-> Keywords(c)] :
        k \in 0..MaxTriggers, q \in 0..MaxTriggers, c \in 0..MaxTriggers}

TriggersLow == [keywords |-> <<>>, patterns |-> <<>>, commands |-> <<>>]

TriggersHigh ==
    [keywords |-> Keywords(3), patterns |-> Keywords(2), commands |-> Keywords(2)]

QualitySkill(metadata, daemons, instructions, triggers) ==
    [ParsedBase EXCEPT !.name = metadata.name,
                       !.version = metadata.version,
                       !.description = metadata.description,
                       !.author = metadata.author,
                       !.daemons = daemons,
                       !.instructions_content = instructions,
                       !.triggers = triggers]

\* each group of inputs over all its choices, with the other groups at their
\* lowest or at their highest scores
QualityInputs ==
    {[skill |-> QualitySkill(m, <<>>, InstructionsLow, TriggersLow), enrichment |-> Nil] :
        m \in MetadataChoices}
    \cup {[skill |-> QualitySkill(m, DaemonList(2, 3), InstructionsHigh, TriggersHigh),
           enrichment |-> EnrichmentHigh] : m \in MetadataChoices}
    \cup {[skill |-> QualitySkill(MetadataLow, d, InstructionsLow, TriggersLow),
           enrichment |-> e] : d \in DaemonChoices, e \in EnrichmentChoices}
    \cup {[skill |-> QualitySkill(MetadataHigh, d, InstructionsHigh, TriggersHigh),
           enrichment |-> e] : d \in DaemonChoices, e \in EnrichmentChoices}
    \cup {[skill |-> QualitySkill(MetadataLow, <<>>, i, TriggersLow), enrichment |-> Nil] :
            i \in InstructionChoices}
    \cup {[skill |-> QualitySkill(MetadataHigh, DaemonList(2, 3), i, TriggersHigh),
           enrichment |-> EnrichmentHigh] : i \in InstructionChoices}
    \cup {[skill |-> QualitySkill(MetadataLow, <<>>, InstructionsLow, t), enrichment |-> Nil] :
            t \in TriggerChoices}
    \cup {[skill |-> QualitySkill(MetadataHigh, DaemonList(2, 3), InstructionsHigh, t),
           enrichment |-> EnrichmentHigh] : t \in TriggerChoices}

InitQuality ==
    /\ \E in \in QualityInputs : skill = in.skill /\ enrichment = in.enrichment
    /\ registry = <<>>
    /\ source = BaseDocument
    /\ sync_file = Absent
    /\ agent_md = Nil
    /\ skill_yaml = Absent
    /\ last_imported = Nil
    /\ quality = Nil
    /\ sync = Nil
    /\ last_op = "init"
    /\ clock = 0

\* one call of analyze_quality
AnalyzeQuality ==
    /\ quality' = analyze_quality(skill, enrichment)
    /\ last_op' = "quality"
    /\ UNCHANGED <<source, registry, sync_file, agent_md, skill_yaml, skill, enrichment,
                   sync, clock>>
    /\ UNCHANGED last_imported

NextQuality == AnalyzeQuality

SpecQuality == InitQuality /\ [][NextQuality]_vars

\* C7: the metadata, dependency, instructions, trigger and config scores and
\* the overall score are each between 0 and 100, for every UIR and every
\* enrichment report, derived from the UIR or not; the grade is F whenever the
\* overall score is below 60.
C7_ScoresBounded ==
    quality # Nil =>
        /\ quality.breakdown.metadata_score \in 0..100
        /\ quality.breakdown.daemon_score \in 0..100
        /\ quality.breakdown.instructions_score \in 0..100
        /\ quality.breakdown.trigger_score \in 0..100
        /\ quality.breakdown.config_score \in 0..100
        /\ quality.score \in 0..100
        /\ quality.score < 60 => quality.grade = "F"

\* a report that verifies more dependencies than the UIR has
C7_Witness ==
    /\ quality # Nil
    /\ enrichment # Nil
    /\ skill.daemons # <<>>
    /\ Len(enrichment.verified_daemons) > Len(skill.daemons)
    /\ quality.breakdown.daemon_score = 100
    /\ quality.score < 60
    /\ quality.grade = "F"

\* C8: the overall score is the integer floor of (25 metadata + 30 dependencies
\* + 25 instructions + 10 triggers + 10 config) / 100; the grade is A iff the
\* score is at least 90, B iff 80 to 89, C iff 70 to 79, D iff 60 to 69, F iff
\* below 60.
C8_WeightsAndBands ==
    quality # Nil =>
        LET b == quality.breakdown
            weighted == 25 * b.metadata_score + 30 * b.daemon_score
                        + 25 * b.instructions_score + 10 * b.trigger_score
                        + 10 * b.config_score
        IN  /\ 100 * quality.score <= weighted
            /\ weighted < 100 * (quality.score + 1)
            /\ quality.grade = "A" <=> quality.score >= 90
            /\ quality.grade = "B" <=> (80 <= quality.score /\ quality.score <= 89)
            /\ quality.grade = "C" <=> (70 <= quality.score /\ quality.score <= 79)
            /\ quality.grade = "D" <=> (60 <= quality.score /\ quality.score <= 69)
            /\ quality.grade = "F" <=> quality.score < 60

\* a weighted sum that is no multiple of 100, at the lower edge of band C
C8_Witness ==
    /\ quality # Nil
    /\ quality.score = 70
    /\ quality.grade = "C"
    /\ (25 * quality.breakdown.metadata_score + 30 * quality.breakdown.daemon_score
        + 25 * quality.breakdown.instructions_score + 10 * quality.breakdown.trigger_score
        + 10 * quality.breakdown.config_score) % 100 # 0

(***************************************************************************)
(* Properties of enrich_skill.                                             *)
(***************************************************************************)
\* the registry that the enrich_skill step was given
LoadedRegistry == load_from_fgp_dir(registry)

\* C11: in enrich_skill, a declared method of a dependency found in the
\* registry that is itself found there (as dependency.method) ends with
\* confidence High whatever it was, and its registry description and parameter
\* list, when present, are in the enrichment report; a declared method that is
\* not found keeps its confidence and notes.
C11_MatchedMethods ==
    [][EnrichStep =>
        \A i \in 1..Len(skill.daemons) :
            skill.daemons[i].name.value \in DOMAIN LoadedRegistry.daemons =>
                \A j \in 1..Len(skill.daemons[i].methods) :
                    LET before == skill.daemons[i].methods[j]
                        after == skill'.daemons[i].methods[j]
                        full == Dotted(skill.daemons[i].name.value, before.value)
                    IN  IF full \in DOMAIN LoadedRegistry.methods
                        THEN LET found == LoadedRegistry.methods[full][2]
                             IN  /\ after.confidence = "High"
                                 /\ found.description # None =>
                                        /\ full \in DOMAIN enrichment'.method_descriptions
                                        /\ enrichment'.method_descriptions[full]
                                             = found.description
                                 /\ found.params # <<>> =>
                                        /\ full \in DOMAIN enrichment'.method_params
                                        /\ enrichment'.method_params[full] = found.params
                        ELSE /\ after.confidence = before.confidence
                             /\ after.notes = before.notes]_vars

\* a dependency with a method of confidence Unknown that the registry does not
\* have and a method that it has
C11_Witness ==
    /\ last_op = "enrich"
    /\ \E i \in 1..Len(skill.daemons) :
           /\ Len(skill.daemons[i].methods) = 2
           /\ skill.daemons[i].methods[1].value = "fly"
           /\ skill.daemons[i].methods[1].confidence = "Unknown"
           /\ skill.daemons[i].methods[1].notes = None
           /\ skill.daemons[i].methods[2].value = "inbox"
           /\ skill.daemons[i].methods[2].confidence = "High"
           /\ skill.daemons[i].methods[2].notes = "Verified in daemon registry"

\* the UIR without the confidence and notes of its dependency names and methods
Unannotated(s) ==
    [s EXCEPT !.daemons =
        [i \in 1..Len(@) |->
            [@[i] EXCEPT !.name = [@ EXCEPT !.confidence = "High", !.notes = None],
                         !.methods = [j \in 1..Len(@) |->
                                         [@[j] EXCEPT !.confidence = "High",
                                                      !.notes = None]]]]]

Occurrences(seq, x) == Cardinality({i \in 1..Len(seq) : seq[i] = x})

\* C12: enrich_skill adds and removes no dependency and no method and changes
\* no field value of the UIR, only confidence and notes of matched entries;
\* each declared dependency is in exactly one of the verified and unknown lists
\* of the report, and a dependency without a registry match is left as it was.
C12_EnrichFrame ==
    [][EnrichStep =>
        /\ Unannotated(skill') = Unannotated(skill)
        /\ Len(enrichment'.verified_daemons) + Len(enrichment'.unknown_daemons)
             = Len(skill.daemons)
        /\ \A i \in 1..Len(skill.daemons) :
               LET name == skill.daemons[i].name.value
                   declared == Occurrences([k \in 1..Len(skill.daemons) |->
                                               skill.daemons[k].name.value], name)
               IN  IF name \in DOMAIN LoadedRegistry.daemons
                   THEN /\ Occurrences(enrichment'.verified_daemons, name) = declared
                        /\ Occurrences(enrichment'.unknown_daemons, name) = 0
                   ELSE /\ Occurrences(enrichment'.unknown_daemons, name) = declared
                        /\ Occurrences(enrichment'.verified_daemons, name) = 0
                        /\ skill'.daemons[i] = skill.daemons[i]]_vars

\* a pass over one dependency without a manifest and one with a manifest
C12_Witness ==
    /\ last_op = "enrich"
    /\ Len(skill.daemons) = 2
    /\ enrichment.unknown_daemons = <<"custom">>
    /\ enrichment.verified_daemons = <<"slack">>
    /\ skill.daemons[2].methods[1].confidence = "High"

(***************************************************************************)
(* Properties of the dependency score.                                     *)
(***************************************************************************)
\* C13: when the dependency list of the UIR is empty, the dependency score is
\* 0 and the issue list contains a Critical issue on the field "daemons" that
\* stands before every issue that is not Critical, with or without an
\* enrichment report.
C13_EmptyDependencies ==
    (quality # Nil /\ skill.daemons = <<>>) =>
        /\ quality.breakdown.daemon_score = 0
        /\ \E i \in 1..Len(quality.issues) :
               /\ quality.issues[i].priority = "Critical"
               /\ quality.issues[i].field = "daemons"
               /\ \A j \in 1..Len(quality.issues) :
                      quality.issues[j].priority # "Critical" => j > i

\* no dependencies, a report that names verified and unknown daemons, and a
\* High issue that the scoring of the metadata found before the Critical one
C13_Witness ==
    /\ quality # Nil
    /\ skill.daemons = <<>>
    /\ enrichment # Nil
    /\ enrichment.verified_daemons # <<>>
    /\ enrichment.unknown_daemons # <<>>
    /\ quality.breakdown.daemon_score = 0
    /\ quality.issues[1].priority = "Critical"
    /\ quality.issues[1].field = "daemons"
    /\ quality.issues[2].priority = "High"
    /\ quality.issues[2].field = "name"

\* the points for the dependency count and for the method count
CountPoints(s) ==
    LET n == Len(s.daemons)
        m == method_count(s.daemons)
    IN  (IF 15 * n < 30 THEN 15 * n ELSE 30)
        + (IF m = 0 THEN 0 ELSE IF 5 * m < 30 THEN 5 * m ELSE 30)

\* the bonus of a report: 40 points times the percentage (rounded down) of
\* the dependencies that the report lists as verified, at most 40
ReportBonus(s, e) ==
    LET percent == (100 * Len(e.verified_daemons)) \div Len(s.daemons)
        points == (40 * percent) \div 100
    IN  IF points < 40 THEN points ELSE 40

\* C14 (as stated): for a UIR with at least one dependency the dependency
\* score is the points for the dependency count plus the points for the method
\* count, plus a bonus proportional to the verified fraction only when a
\* report is supplied; without a report no further points are added.
C14_NoPointsWithoutReport ==
    (quality # Nil /\ skill.daemons # <<>>) =>
        quality.breakdown.daemon_score =
            CountPoints(skill) + (IF enrichment # Nil THEN ReportBonus(skill, enrichment) ELSE 0)

\* C14 (amended): for a UIR with at least one dependency the dependency score
\* is the points for the dependency count plus the points for the method
\* count, plus, when a report is supplied, a bonus proportional to the
\* verified fraction (at most 40), and, when no report is supplied, a flat 20
\* points.
C14_DependencyScore ==
    (quality # Nil /\ skill.daemons # <<>>) =>
        quality.breakdown.daemon_score =
            CountPoints(skill) + (IF enrichment # Nil THEN ReportBonus(skill, enrichment) ELSE 20)

\* three dependencies of one method each, scored without a report
C14_Witness ==
    /\ quality # Nil
    /\ enrichment = Nil
    /\ Len(skill.daemons) = 3
    /\ method_count(skill.daemons) = 3
    /\ quality.breakdown.daemon_score = 30 + 15 + 20

(***************************************************************************)
(* import_skill on documents of the eight formats, the format detected     *)
(* from the file name.                                                     *)
(***************************************************************************)
MailSend == Tool("mail", "send")

MailManifest ==
    [name |-> "mail",
     methods |-> <<[name |-> "mail.send", short |-> "send",
                    description |-> "Send a mail", params |-> <<"to">>]>>,
     auth |-> [auth_type |-> "password", provider |-> "imap"],
     platforms |-> <<"darwin", "linux">>]

ParserRegistries == {<<>>, <<MailManifest, GmailManifest>>}

\* a short body and a long one with a code fence, a trigger section of three
\* items and two commands; neither mentions a service
BodyShort ==
    [text |-> [s |-> "body-short", len |-> 40, fence |-> FALSE],
     para |-> Txt("Use it to send mail."),
     h1 |-> None] @@ NoHits

BodyRich ==
    [text |-> [s |-> "body-rich", len |-> 900, fence |-> TRUE],
     para |-> Txt("Use it to send mail."),
     h1 |-> "Foo Bar",
     trigger_items |-> <<"send mail", "write mail", "mail">>,
     commands |-> <<"/mail", "/send">>] @@ NoHits

\* Scenario A: front matter with name, description and tools ["mail.send"]
ScenarioA == [BaseDocument EXCEPT !.tools = <<MailSend>>, !.body = BodyShort]

ScenarioADocuments ==
    {ScenarioA,
     [ScenarioA EXCEPT !.body = BodyA],
     [ScenarioA EXCEPT !.body = BodyRich],
     [ScenarioA EXCEPT !.body = [BodyRich EXCEPT !.calls = <<MailSend>>]]}

\* a document without front matter
Plain(path, body) ==
    [path |-> path, fm_name |-> None, fm_description |-> Nil, fm_version |-> None,
     tools |-> <<>>, fm_triggers |-> <<>>, body |-> body]

\* Scenario B: plain markdown, first heading "# Example", two sentences
BodyExample(len) ==
    [text |-> [s |-> "# Example ...", len |-> len, fence |-> FALSE],
     para |-> Txt("This is an example. It does little."),
     h1 |-> "Example"] @@ NoHits

ScenarioBDocuments ==
    {Plain([dir |-> d, file |-> f], BodyExample(len)) :
        d \in {None, "project"},
        f \in {".cursorrules", "my.cursorrules", "project.rules", "notes.windsurf.md"},
        len \in {48, 230, 520}}

\* bodies that several patterns match
BodyPatterns ==
    [text |-> [s |-> "body-patterns", len |-> 300, fence |-> TRUE],
     para |-> Txt("Reads and sends mail."),
     h1 |-> "Mail Helper",
     calls |-> <<Tool("gmail", "send")>>,
     clients |-> <<Tool("gmail", "send"), Tool("gmail", "inbox")>>,
     clis |-> <<Tool("gmail", "inbox"), Tool("gmail", "search"), Tool("gmail", "client"),
                Tool("slack", "daemon")>>,
     tables |-> <<Tool("gmail", "search"), Tool("gmail", "labels"),
                  Tool("gmail", "labels")>>] @@ NoHits

\* bodies and lists that name generic words, one-letter and one-character names
BodyGeneric ==
    [text |-> [s |-> "body-generic", len |-> 300, fence |-> FALSE],
     para |-> Txt("Reads config.json."),
     h1 |-> "Style Guide",
     overview |-> Txt("Conventions of the project."),
     usage_items |-> <<"/add", "aider --watch", "run the tests">>,
     calls |-> <<Tool("json", "load"), Tool("gmail", "send")>>,
     clients |-> <<Tool("JSON", "dump"), Tool("x", "run")>>,
     clis |-> <<Tool("Src", "main"), Tool("é", "send")>>,
     tables |-> <<Tool("config", "json"), Tool("settings", "yaml"), Tool("a", "b")>>]
    @@ NoHits

ToolsGeneric ==
    <<Tool("json", "parse"), Tool("Src", "main"), Tool("x", "y"), Tool("", "send"),
      Tool(None, "plain"), Tool("é", "send"), GmailSend>>

McpTool(name, parts, dot) ==
    [name |-> name, description |-> None, parts |-> parts, dot |-> dot]

McpToolsGeneric ==
    <<McpTool("mcp__json__parse", <<"mcp", "json", "parse">>, Tool(None, None)),
      McpTool("Src__main", <<"Src", "main">>, Tool(None, None)),
      McpTool("mcp__x", <<"mcp", "x">>, Tool(None, None)),
      McpTool("json.parse", <<"json.parse">>, Tool("json", "parse")),
      McpTool("é.send", <<"é.send">>, Tool("é", "send")),
      McpTool("plain", <<"plain">>, Tool(None, None)),
      McpTool("gmail.send", <<"gmail.send">>, GmailSend),
      McpTool("mcp__gmail__send", <<"mcp", "gmail", "send">>, Tool(None, None))>>

Json(file, json) == [path |-> [dir |-> "project", file |-> file], json |-> json]

Gemini(capabilities) ==
    Json("gemini-extension.json",
         [name |-> "mail-helper", display_name |-> None, description |-> Nil,
          version |-> "0.3.0", capabilities |-> capabilities,
          keywords |-> <<"mail">>, patterns |-> <<>>,
          instructions |-> Nil,
          instructions_file |-> [file |-> "GEMINI.md", read |-> Missing]])

Codex(tools, instructions) ==
    Json("test.codex.json",
         [name |-> None, description |-> Txt("Reads and sends mail for the user."),
          instructions |-> instructions, instructions_file |-> Nil, tools |-> tools])

Mcp(tools) ==
    Json("test.mcp.json", [name |-> "mail-helper", description |-> Nil, tools |-> tools])

\* the document with a front matter block that is not valid YAML
BrokenYaml(doc) == doc @@ [yaml |-> Malformed]

\* a SKILL.md and a Windsurf rules file with broken front matter, and manifests
\* that are not valid JSON
MalformedDocuments ==
    {BrokenYaml(ScenarioA),
     BrokenYaml([Plain([dir |-> "project", file |-> "notes.windsurf.md"], BodyGeneric)
                    EXCEPT !.fm_name = "mail-helper"]),
     Json("gemini-extension.json", Malformed),
     Json("test.codex.json", Malformed),
     Json("test.mcp.json", Malformed)}

ParserDocuments ==
    ScenarioADocuments \cup ScenarioBDocuments \cup MalformedDocuments
    \cup {[BaseDocument EXCEPT !.body = BodyPatterns],
          [BaseDocument EXCEPT !.fm_name = None, !.fm_description = Nil],
          [BaseDocument EXCEPT !.tools = <<GmailSend, GmailSlack, GmailSend>>],
          [BaseDocument EXCEPT !.tools = ToolsGeneric, !.body = BodyGeneric],
          Plain([dir |-> "rules", file |-> ".cursorrules"], BodyPatterns),
          Plain([dir |-> "project", file |-> "my.cursorrules"], BodyGeneric),
          Plain([dir |-> "project", file |-> "project.rules"], BodyGeneric),
          [Plain([dir |-> "project", file |-> "notes.windsurf.md"], BodyGeneric)
              EXCEPT !.fm_name = "mail-helper"],
          Plain([dir |-> "project", file |-> "CONVENTIONS.md"], BodyGeneric),
          Plain([dir |-> None, file |-> "CONVENTIONS.md"],
                [BodyPatterns EXCEPT !.h1 = None] @@
                [overview |-> Nil, usage_items |-> <<>>]),
          Gemini(<<Nil, Tool("JSON", "parse"), Tool("é", "send"), Tool(None, "plain"),
                   GmailSend, GmailSend>>),
          Gemini(<<GmailSend, SlackSend>>),
          Codex(ToolsGeneric, BodyGeneric),
          Codex(<<GmailSend, GmailSend>>, Nil),
          Mcp(McpToolsGeneric),
          Mcp(<<McpTool("slack__send", <<"slack", "send">>, Tool(None, None))>>)}

InitParsers ==
    /\ source \in ParserDocuments
    /\ registry \in ParserRegistries
    /\ sync_file = Absent
    /\ agent_md = Nil
    /\ skill_yaml = Absent
    /\ last_imported = Nil
    /\ skill = Nil
    /\ enrichment = Nil
    /\ quality = Nil
    /\ sync = Nil
    /\ last_op = "init"
    /\ clock = 0

\* import_skill without --format
ImportDetected ==
    \E dry_run \in BOOLEAN, enrich \in BOOLEAN : ImportSkill(None, dry_run, enrich, NoFault)

NextParsers == ImportDetected \/ AnalyzeSync

SpecParsers == InitParsers /\ [][NextParsers]_vars

(***************************************************************************)
(* Properties of the parsers.                                              *)
(***************************************************************************)
\* C15: importing a document whose front matter has name foo-bar, a
\* description and tools ["mail.send"] gives a UIR whose name has confidence
\* High and whose dependency list is exactly one dependency named mail, its
\* name at confidence High, with exactly one method send at confidence High.
C15_ScenarioAStructure ==
    (skill # Nil /\ source \in ScenarioADocuments) =>
        /\ skill.name.value = "foo-bar"
        /\ skill.name.confidence = "High"
        /\ Len(skill.daemons) = 1
        /\ skill.daemons[1].name.value = "mail"
        /\ skill.daemons[1].name.confidence = "High"
        /\ Len(skill.daemons[1].methods) = 1
        /\ skill.daemons[1].methods[1].value = "send"
        /\ skill.daemons[1].methods[1].confidence = "High"

\* the document whose body also calls mail.send, imported without a report
C15_Witness ==
    /\ skill # Nil
    /\ source \in ScenarioADocuments
    /\ source.body.calls = <<MailSend>>
    /\ enrichment = Nil
    /\ skill.daemons[1].name.value = "mail"
    /\ skill.daemons[1].methods[1].source = "Frontmatter"

\* C16 (as stated): the UIR of the document with name foo-bar, description
\* "Foo Bar skill", tools ["mail.send"] and a non-empty body is graded B or
\* better.
C16_GradeBOrBetter ==
    (quality # Nil /\ source \in ScenarioADocuments) => quality.grade \in {"A", "B"}

\* C16 (amended): the UIR of that document, its body naming no further service
\* or method, is graded below B: F when no enrichment report was produced,
\* and C at best when one was.
C16_ScenarioAGrade ==
    (quality # Nil /\ source \in ScenarioADocuments) =>
        /\ quality.grade \in {"C", "D", "F"}
        /\ enrichment = Nil => quality.grade = "F"

\* the long body with a code fence and triggers, mail verified by the registry
C16_Witness ==
    /\ quality # Nil
    /\ source \in ScenarioADocuments
    /\ enrichment # Nil
    /\ enrichment.verified_daemons = <<"mail">>
    /\ quality.breakdown.instructions_score = 100
    /\ quality.breakdown.config_score = 100
    /\ quality.score = 72
    /\ quality.grade = "C"

\* C17: importing a plain markdown document without front matter, with first
\* heading "# Example", no service mentions and a body of two sentences gives
\* the name "Example" at confidence Medium, an empty dependency list with a
\* Critical issue raised, and a grade of D or F.
C17_ScenarioB ==
    (skill # Nil /\ quality # Nil /\ source \in ScenarioBDocuments) =>
        /\ skill.name.value = "Example"
        /\ skill.name.confidence = "Medium"
        /\ skill.daemons = <<>>
        /\ \E i \in 1..Len(quality.issues) :
               /\ quality.issues[i].priority = "Critical"
               /\ quality.issues[i].field = "daemons"
        /\ quality.grade \in {"D", "F"}

\* the longest of the bodies, imported from a file in a named directory
C17_Witness ==
    /\ skill # Nil
    /\ quality # Nil
    /\ source \in ScenarioBDocuments
    /\ source.path.dir = "project"
    /\ skill.source_format = "Cursor"
    /\ skill.instructions_content.value.len > 500
    /\ skill.name.value = "Example"
    /\ quality.issues[1].priority = "Critical"
    /\ quality.grade = "F"

\* what extract_daemons_from_tools was given by the parser of the source
\* (parse_gemini and parse_mcp have one source of methods only)
ExtractionInput ==
    IF skill.source_format = "ClaudeCode"
    THEN [tools |-> frontmatter_or_default(source).tools, body |-> source.body]
    ELSE IF skill.source_format = "Codex"
    THEN [tools |-> source.json.tools,
          body |-> instructions_of(source.json, skill.name).body]
    ELSE [tools |-> <<>>, body |-> source.body]

Mentions(hits, d, m) == \E i \in 1..Len(hits) : hits[i] = Tool(d, m)

\* the extraction sources that found method m of service d, each with the
\* confidence it assigns
SourcesFinding(in, d, m) ==
    {src \in {[source |-> "tools", confidence |-> "High"],
              [source |-> "calls", confidence |-> "Medium"],
              [source |-> "clients", confidence |-> "Medium"],
              [source |-> "clis", confidence |-> "Low"],
              [source |-> "tables", confidence |-> "Medium"]} :
        CASE src.source = "tools" -> Mentions(in.tools, d, m)
          [] src.source = "calls" -> Mentions(in.body.calls, d, m)
          [] src.source = "clients" -> Mentions(in.body.clients, d, m)
          [] src.source = "clis" -> Mentions(in.body.clis, d, m) /\ m \notin {"client", "daemon"}
          [] src.source = "tables" -> Mentions(in.body.tables, d, m)}

Highest(found) ==
    IF \E src \in found : src.confidence = "High" THEN "High"
    ELSE IF \E src \in found : src.confidence = "Medium" THEN "Medium"
    ELSE "Low"

\* C18: a method that several extraction sources found (the structured tools
\* list, the fgp call pattern, the client pattern, the CLI pattern, the
\* method tables) is listed exactly once in its dependency, with the highest
\* of the confidences of the sources that found it.
C18_OnceWithHighestConfidence ==
    (skill # Nil /\ enrichment = Nil /\ skill.source_format \notin {"Gemini", "Mcp"}) =>
        \A i \in 1..Len(skill.daemons) :
            \A j \in 1..Len(skill.daemons[i].methods) :
                LET d == skill.daemons[i].name.value
                    m == skill.daemons[i].methods[j].value
                    found == SourcesFinding(ExtractionInput, d, m)
                IN  Cardinality(found) >= 2 =>
                        /\ Occurrences(Values(skill.daemons[i].methods), m) = 1
                        /\ skill.daemons[i].methods[j].confidence = Highest(found)

\* the part of C18 on the structured list: a method that is in the tools list
\* once and is also matched in the body is listed once, at High
C18_ToolsListWins ==
    (skill # Nil /\ enrichment = Nil /\ skill.source_format \notin {"Gemini", "Mcp"}) =>
        \A i \in 1..Len(skill.daemons) :
            \A j \in 1..Len(skill.daemons[i].methods) :
                LET d == skill.daemons[i].name.value
                    m == skill.daemons[i].methods[j].value
                    found == SourcesFinding(ExtractionInput, d, m)
                IN  (Cardinality(found) >= 2
                     /\ Occurrences(ExtractionInput.tools, Tool(d, m)) = 1) =>
                        /\ Occurrences(Values(skill.daemons[i].methods), m) = 1
                        /\ skill.daemons[i].methods[j].confidence = "High"

\* C19: in the UIR of any parser the dependency names are pairwise distinct
\* and no dependency lists a method name more than once, also when the tools
\* or capabilities list of the source repeats an entry.
C19_DistinctNamesAndMethods ==
    skill # Nil =>
        /\ \A i, j \in 1..Len(skill.daemons) :
               skill.daemons[i].name.value = skill.daemons[j].name.value => i = j
        /\ \A i \in 1..Len(skill.daemons) :
               \A j, k \in 1..Len(skill.daemons[i].methods) :
                   skill.daemons[i].methods[j].value = skill.daemons[i].methods[k].value
                       => j = k

\* the part of C19 on the names: they are the keys of a map
C19_DistinctNames ==
    skill # Nil =>
        \A i, j \in 1..Len(skill.daemons) :
            skill.daemons[i].name.value = skill.daemons[j].name.value => i = j

\* C20: in the UIR of any of the eight parsers no dependency has a name that
\* is a word of the deny list, compared without regard to case, or a name of
\* fewer than two characters, whichever extraction path found it.
C20_NoGenericOrShortNames ==
    skill # Nil =>
        \A i \in 1..Len(skill.daemons) :
            /\ to_lowercase(skill.daemons[i].name.value) \notin invalid_names
            /\ Len(skill.daemons[i].name.value) >= 2

\* the part of C20 on the deny list, and names of fewer than two bytes
C20_NoGenericNames ==
    skill # Nil =>
        \A i \in 1..Len(skill.daemons) :
            /\ to_lowercase(skill.daemons[i].name.value) \notin invalid_names
            /\ utf8_len(skill.daemons[i].name.value) >= 2

\* the name that the structured metadata block of the source supplies to the
\* parser of the format, None when it supplies none
StructuredName ==
    CASE skill.source_format \in {"ClaudeCode", "Windsurf"} ->
            frontmatter_or_default(source).fm_name
      [] skill.source_format = "Gemini" ->
            IF source.json.display_name # None THEN source.json.display_name
            ELSE source.json.name
      [] skill.source_format \in {"Codex", "Mcp"} -> source.json.name
      [] OTHER -> None

\* C21: in every parser a skill name supplied by the structured metadata block
\* is tagged High with source Frontmatter, a name taken from the first heading
\* is tagged Medium with source Content, and a name guessed from the directory
\* or file name is tagged Low.
C21_NameConfidencePolicy ==
    skill # Nil =>
        /\ StructuredName # None =>
               /\ skill.name.value = StructuredName
               /\ skill.name.source = "Frontmatter"
        /\ skill.name.source = "Frontmatter" => skill.name.confidence = "High"
        /\ skill.name.source = "Content" => skill.name.confidence = "Medium"
        /\ skill.name.source = "Filename" => skill.name.confidence = "Low"

\* the policy of C21 in the seven parsers other than parse_claude_code
C21_PolicyOutsideClaudeCode ==
    (skill # Nil /\ skill.source_format # "ClaudeCode") =>
        /\ StructuredName # None =>
               /\ skill.name.value = StructuredName
               /\ skill.name.source = "Frontmatter"
        /\ skill.name.source = "Frontmatter" => skill.name.confidence = "High"
        /\ skill.name.source = "Content" => skill.name.confidence = "Medium"
        /\ skill.name.source = "Filename" => skill.name.confidence = "Low"

\* a confidence-tagged field whose confidence is High or that carries a note
Explained(f) == f.confidence = "High" \/ (f.notes # None /\ f.notes # "")

AllExplained(fields) == \A i \in 1..Len(fields) : Explained(fields[i])

\* C22: in the UIR that a parser produces, every confidence-tagged field whose
\* confidence is below High (name, version, description, instructions, the
\* name, version and optional flag of each dependency, each method, each
\* trigger) carries a non-empty note.
C22_NotesBelowHigh ==
    (skill # Nil /\ enrichment = Nil) =>
        /\ Explained(skill.name)
        /\ Explained(skill.version)
        /\ Explained(skill.description)
        /\ Explained(skill.instructions_content)
        /\ \A i \in 1..Len(skill.daemons) :
               /\ Explained(skill.daemons[i].name)
               /\ Explained(skill.daemons[i].version)
               /\ Explained(skill.daemons[i].optional)
               /\ AllExplained(skill.daemons[i].methods)
        /\ AllExplained(skill.triggers.keywords)
        /\ AllExplained(skill.triggers.patterns)
        /\ AllExplained(skill.triggers.commands)

\* the fields for which C22 holds: the name, and the version of the skill
C22_NameAndVersionExplained ==
    (skill # Nil /\ enrichment = Nil) =>
        /\ Explained(skill.name)
        /\ Explained(skill.version)

\* the line of skill.yaml that writes `value` under `key` carries an inline
\* low-confidence marker
Marked(key, value) ==
    \E i \in 1..Len(skill_yaml.lines) :
        /\ skill_yaml.lines[i].key = key
        /\ skill_yaml.lines[i].value = value
        /\ skill_yaml.lines[i].marker # Nil
        /\ skill_yaml.lines[i].marker.tag = "LOW-CONFIDENCE"

MarkedIffBelowHigh(key, f) == Marked(key, f.value) <=> f.confidence # "High"

AllMarkedIffBelowHigh(key, fields) ==
    \A i \in 1..Len(fields) : MarkedIffBelowHigh(key, fields[i])

\* C26: the skill.yaml written by generate_skill_yaml carries an inline
\* low-confidence marker for every UIR field whose confidence is below High
\* (skill name, version, description, each dependency name, each method, each
\* trigger) and no marker for a field whose confidence is High.
C26_MarkerIffBelowHigh ==
    last_op = "import" =>
        /\ MarkedIffBelowHigh("name", skill.name)
        /\ MarkedIffBelowHigh("version", skill.version)
        /\ MarkedIffBelowHigh("description", skill.description)
        /\ \A i \in 1..Len(skill.daemons) :
               /\ MarkedIffBelowHigh("daemons.name", skill.daemons[i].name)
               /\ AllMarkedIffBelowHigh("daemons.methods", skill.daemons[i].methods)
        /\ AllMarkedIffBelowHigh("triggers.keywords", skill.triggers.keywords)
        /\ AllMarkedIffBelowHigh("triggers.patterns", skill.triggers.patterns)
        /\ AllMarkedIffBelowHigh("triggers.commands", skill.triggers.commands)

\* the part of C26 that holds: the version and the dependency names are
\* marked exactly when below High, and no other field of the UIR is marked
C26_VersionAndDependencyNamesMarked ==
    last_op = "import" =>
        /\ skill_yaml = generate_skill_yaml(skill)
        /\ MarkedIffBelowHigh("version", skill.version)
        /\ \A i \in 1..Len(skill.daemons) :
               MarkedIffBelowHigh("daemons.name", skill.daemons[i].name)
        /\ \A i \in 1..Len(skill_yaml.lines) :
               skill_yaml.lines[i].key
                   \in {"name", "description", "daemons.methods", "triggers.keywords",
                        "triggers.patterns", "triggers.commands"}
               => skill_yaml.lines[i].marker = Nil

\* the structured portion of the source (JSON manifest, YAML front matter) is
\* present and does not parse
StructuredPortionMalformed ==
    \/ "json" \in DOMAIN source /\ source.json = Malformed
    \/ "yaml" \in DOMAIN source /\ source.yaml = Malformed

\* C24: a parser fails whenever the structured portion of its input is present
\* and malformed (a JSON manifest that is not valid JSON, a YAML front matter
\* block that is not valid YAML), and never for another reason such as absent
\* optional fields.
C24_FailsIffMalformed ==
    last_op \in {"import", "dry_run", "error"} =>
        (last_op = "error" <=> StructuredPortionMalformed)

\* what holds instead: only a manifest that is not valid JSON makes a parser
\* fail; after a front matter block that is not valid YAML the import goes on
\* with no front-matter field at all
C24_OnlyMalformedJsonFails ==
    last_op \in {"import", "dry_run", "error"} =>
        /\ last_op = "error" <=> ("json" \in DOMAIN source /\ source.json = Malformed)
        /\ ("yaml" \in DOMAIN source /\ source.yaml = Malformed) =>
               /\ skill.name.source # "Frontmatter"
               /\ skill.description.source # "Frontmatter"
               /\ skill.version.source = "Default"

\* the names of the dependencies that the UIR declares
DeclaredNames(s) == [i \in 1..Len(s.daemons) |-> s.daemons[i].name.value]

\* the step is an import_skill run with --enrich, the format detected, while no
\* daemon manifest can be loaded, and the run does not fail
EnrichWithoutRegistry(dry_run) ==
    /\ registry = <<>>
    /\ ImportSkill(None, dry_run, TRUE, NoFault)
    /\ last_op' # "error"

\* C25: when enrichment is requested and the registry is unavailable,
\* import_skill still completes successfully, and the quality assessment is
\* computed with an enrichment report in which no dependency is verified and
\* every declared dependency is listed as unknown.
C25_AllUnknownReport ==
    [][\A dry_run \in BOOLEAN :
          EnrichWithoutRegistry(dry_run) =>
              /\ enrichment' # Nil
              /\ enrichment'.verified_daemons = <<>>
              /\ enrichment'.unknown_daemons = DeclaredNames(skill')
              /\ quality' = analyze_quality(skill', enrichment')]_vars

\* C25 as the code has it: the run with --enrich does what the run without it
\* does; there is no enrichment report, and the quality assessment is the one
\* computed without a report
C25_NoReport ==
    [][\A dry_run \in BOOLEAN :
          (registry = <<>> /\ ImportSkill(None, dry_run, TRUE, NoFault)) =>
              /\ ImportSkill(None, dry_run, FALSE, NoFault)
              /\ last_op' # "error" =>
                     /\ enrichment' = Nil
                     /\ quality' = analyze_quality(skill', Nil)]_vars

\* an import with no registry of a skill that declares dependencies: an
\* all-unknown report would have scored it differently
C25_Witness ==
    /\ registry = <<>>
    /\ last_op = "import"
    /\ enrichment = Nil
    /\ Len(skill.daemons) > 0
    /\ quality # analyze_quality(skill, enrich_skill(skill, NewRegistry).enrichment)

(***************************************************************************)
(* import_skill on files of many names, with and without --format.  Every  *)
(* document has a markdown view (the parsers of the markdown formats read  *)
(* any text); those of the JSON formats also have their manifest.          *)
(***************************************************************************)
\* file names that detect knows, and names that it does not
MarkdownFiles ==
    {"SKILL.md", ".cursorrules", "my.cursorrules", "project.rules", "notes.windsurf.md",
     "CONVENTIONS.md", "my.CONVENTIONS.md"}

UndetectedFiles ==
    {"skill.md", "README.md", "package.json", "cursorrules", "rules", "SKILL.md.bak"}

\* the text of a manifest, read as markdown
BodyOfManifest ==
    [text |-> [s |-> "{ ... }", len |-> 160, fence |-> FALSE],
     para |-> Txt("{ ... }"),
     h1 |-> None,
     overview |-> Nil,
     usage_items |-> <<>>] @@ NoHits

WithMarkdownView(doc) == Plain(doc.path, BodyOfManifest) @@ [json |-> doc.json]

DetectDocuments ==
    {Plain([dir |-> d, file |-> f],
           BodyExample(48) @@ [overview |-> Nil, usage_items |-> <<>>]) :
        d \in {None, "project"}, f \in MarkdownFiles \cup UndetectedFiles}
    \cup {WithMarkdownView(Gemini(<<GmailSend>>)),
          WithMarkdownView(Codex(<<GmailSend>>, Nil)),
          WithMarkdownView(Mcp(<<McpTool("gmail.send", <<"gmail.send">>, GmailSend)>>))}

DetectHints == {None, "Cursor", "bogus"}

InitDetect ==
    /\ source \in DetectDocuments
    /\ registry = <<>>
    /\ sync_file = Absent
    /\ agent_md = Nil
    /\ skill_yaml = Absent
    /\ last_imported = Nil
    /\ skill = Nil
    /\ enrichment = Nil
    /\ quality = Nil
    /\ sync = Nil
    /\ last_op = "init"
    /\ clock = 0

ImportAny == \E hint \in DetectHints, dry_run \in BOOLEAN :
                 ImportSkill(hint, dry_run, FALSE, NoFault)

NextDetect == ImportAny

SpecDetect == InitDetect /\ [][NextDetect]_vars

\* the table of C23, on the file names of the model
FormatOfName(file) ==
    CASE file = "SKILL.md" -> "ClaudeCode"
      [] file \in {".cursorrules", "my.cursorrules"} -> "Cursor"
      [] file = "test.codex.json" -> "Codex"
      [] file = "test.mcp.json" -> "Mcp"
      [] file = "project.rules" -> "Zed"
      [] file = "notes.windsurf.md" -> "Windsurf"
      [] file = "gemini-extension.json" -> "Gemini"
      [] file \in {"CONVENTIONS.md", "my.CONVENTIONS.md"} -> "Aider"
      [] OTHER -> None

BodyACommand ==
    [BodyA EXCEPT !.text = [s |-> "body-a /mail", len |-> 126, fence |-> FALSE],
                  !.commands = <<"/mail">>]

\* the same with the command altered
BodyACommandAltered ==
    [BodyA EXCEPT !.text = [s |-> "body-a /send", len |-> 126, fence |-> FALSE],
                  !.commands = <<"/send">>]

RunDocuments ==
    {BaseDocument,
     [BaseDocument EXCEPT !.body = BodyACommand],
     [BaseDocument EXCEPT !.body = BodyACommandAltered],
     [BaseDocument EXCEPT !.fm_triggers = <<"mail">>],
     Plain([dir |-> "foo-bar", file |-> "README.md"], BodyA),
     Json("gemini-extension.json", Malformed),
     NoFile}

RunHints == {None, "bogus"}

InitRuns ==
    /\ source \in RunDocuments
    /\ registry = <<>>
    /\ sync_file = Absent
    /\ agent_md = Nil
    /\ skill_yaml = Absent
    /\ last_imported = Nil
    /\ skill = Nil
    /\ enrichment = Nil
    /\ quality = Nil
    /\ sync = Nil
    /\ last_op = "init"
    /\ clock = 0

ImportRun ==
    \E hint \in RunHints, dry_run \in BOOLEAN, fault \in Faults \cup {NoFault} :
        ImportSkill(hint, dry_run, FALSE, fault)

EditRun ==
    /\ clock < MaxClock
    /\ \E d \in RunDocuments : d # source /\ source' = d
    /\ last_op' = "edit"
    /\ UNCHANGED <<registry, sync_file, agent_md, skill_yaml, skill, enrichment, quality,
                   sync, clock, last_imported>>

NextRuns == ImportRun \/ EditRun

SpecRuns == InitRuns /\ [][NextRuns]_vars

\* the step is an import_skill run that returned Ok and was not a dry run
SuccessfulImport == last_op' = "import" /\ clock' = clock + 1

\* C27: over any sequence of import_skill runs into one output directory, with
\* the source edited between runs, each run reads the stored fingerprint
\* before overwriting it; the status is InSync exactly when the fresh
\* fingerprint equals the one stored by the most recent successful import that
\* was not a dry run; and after every successful import that was not a dry run
\* the stored fingerprint is that of the UIR just imported.
C27_InSyncWithLastSuccessfulImport ==
    [][SuccessfulImport =>
          /\ sync'.status = "InSync" <=>
                 /\ last_imported # Nil
                 /\ last_imported.combined_hash = from_imported(skill', clock).combined_hash
          /\ sync_file'.kind = "metadata"
          /\ sync_file'.fingerprint = from_imported(skill', clock)]_vars

\* what holds of every run: the status is InSync exactly when the fresh
\* fingerprint equals the one found in .sync.json before the run, whichever
\* run wrote it, and a successful import stores the fingerprint of its UIR
C27_InSyncWithStoredFingerprint ==
    [][SuccessfulImport =>
          /\ sync'.status = "InSync" <=>
                 /\ sync_file.kind = "metadata"
                 /\ sync_file.fingerprint.combined_hash
                        = from_imported(skill', clock).combined_hash
          /\ sync_file'.kind = "metadata"
          /\ sync_file'.fingerprint = from_imported(skill', clock)
          /\ last_imported' = sync_file'.fingerprint]_vars

\* C28: a dry run or an error return (missing input file, undetectable or
\* unknown format, malformed JSON manifest, or a failed output write) leaves
\* the stored sync metadata unchanged; input errors and dry runs create or
\* modify no file at all.
C28_ErrorsLeaveSyncMetadata ==
    [][/\ last_op' \in {"dry_run", "error", "write_error"} => sync_file' = sync_file
       /\ last_op' \in {"dry_run", "error"} =>
              UNCHANGED <<sync_file, agent_md, skill_yaml>>]_vars

\* the part of C28 that holds: input errors and dry runs touch no file, and a
\* run cut short by a failed write leaves .sync.json as it was, cut short, or
\* rewritten for the UIR of the run
C28_InputErrorsAndDryRuns ==
    [][/\ last_op' \in {"dry_run", "error"} =>
              UNCHANGED <<sync_file, agent_md, skill_yaml>>
       /\ last_op' = "write_error" =>
              sync_file' \in {sync_file, Garbage, generate_sync_metadata(skill', clock)}]_vars

\* the UIRs differ in their slash commands, and in no other field than the
\* text that holds the commands
OnlyCommandsDiffer(a, b) ==
    /\ a.triggers.commands # b.triggers.commands
    /\ a.triggers.keywords = b.triggers.keywords
    /\ a.triggers.patterns = b.triggers.patterns
    /\ a.name = b.name
    /\ a.version = b.version
    /\ a.description = b.description
    /\ a.daemons = b.daemons

\* the step is a successful import of a source that differs from the one
\* imported last only in a slash command
ImportOfCommandChange ==
    /\ SuccessfulImport
    /\ skill # Nil
    /\ sync_file.kind = "metadata"
    /\ sync_file.fingerprint.combined_hash = from_imported(skill, clock).combined_hash
    /\ OnlyCommandsDiffer(skill, skill')

HasDiff(field) == \E i \in 1..Len(sync'.diffs) : sync'.diffs[i].field = field

\* C29: the triggers hash covers keywords, patterns and commands: when the
\* only change to the source adds, removes or alters a slash command, the next
\* import does not report InSync and emits a triggers diff.
C29_CommandChangeGivesTriggersDiff ==
    [][ImportOfCommandChange =>
          /\ sync'.status # "InSync"
          /\ HasDiff("triggers")]_vars

\* what the code does instead: the change is seen through the instructions
\* text only
C29_CommandChangeGivesInstructionsDiff ==
    [][ImportOfCommandChange =>
          /\ sync'.status = "SourceNewer"
          /\ HasDiff("instructions")
          /\ ~HasDiff("triggers")
          /\ sync'.current_fingerprint.triggers_hash = sync_file.fingerprint.triggers_hash]_vars

\* C30: without an enrichment report the configuration/authentication score
\* is exactly 20, with an issue that recommends enrichment, the dependency
\* score is at most 80, and the overall score is at most 83 whatever the UIR:
\* grade A cannot be reached.
C30_CeilingWithoutReport ==
    (quality # Nil /\ enrichment = Nil) =>
        /\ quality.breakdown.config_score = 20
        /\ \E i \in 1..Len(quality.issues) :
               /\ quality.issues[i].category = "MissingAuth"
               /\ "suggestion" \in DOMAIN quality.issues[i]
               /\ quality.issues[i].suggestion
                      = "Run with --enrich or manually check daemon auth needs"
        /\ quality.breakdown.daemon_score <= 80
        /\ quality.score <= 83
        /\ quality.grade # "A"

\* the ceiling is reached: every other category at its maximum
C30_Witness ==
    /\ quality # Nil
    /\ enrichment = Nil
    /\ quality.breakdown.daemon_score = 80
    /\ quality.breakdown.config_score = 20
    /\ quality.score = 83
    /\ quality.grade = "B"

=============================================================================
